---- MODULE Spec2Model ----
(***************************************************************************)
(* A model of the fged linear-algebra kernel (src/src/vector.rs and        *)
(* src/src/matrix.rs): Vector3D, Vector4D, Matrix3D and Matrix4D with      *)
(* their arithmetic, determinant and inverse.                              *)
(*                                                                         *)
(* The kernel is a set of pure functions over f64.  Scalars are modelled   *)
(* as exact rationals <<numerator, denominator>> in lowest terms with a    *)
(* positive denominator, so that equality of scalars is equality of        *)
(* values and the reciprocal taken by inverse() is computed, not assumed.  *)
(* Where a property is about the bits f64 produces, the same functions are *)
(* also evaluated with every operation rounded to the nearest value of a   *)
(* binary floating-point format (the *_rounded operators).  Infinities and *)
(* NaN of IEEE-754 are outside the model.                                  *)
(*                                                                         *)
(* The state is the last call made on the kernel: the operation, its       *)
(* operands and the value it returned, and the Matrix3DIterator that is    *)
(* live, if one is.                                                        *)
(***************************************************************************)
EXTENDS Integers, Sequences, FiniteSets, TLC

VARIABLES op, args, ret, iterator

vars == <<op, args, ret, iterator>>

(***************************************************************************)
(* Bounds of the model.                                                    *)
(***************************************************************************)
\* integer components of enumerated operands range over -MaxEntry..MaxEntry
MaxEntry == 1
\* significand width of the rounded arithmetic (f64 has 53 digits; the model
\* keeps fewer so that significands stay within 32-bit integers)
MantissaDigits == 9
\* calls of next() made on one iterator
MaxCalls == 11
\* indices tried in an indexing call range over 0..MaxIndex
MaxIndex == 5
\* angles range over the multiples of 90 degrees (of 45 degrees where only
\* the tangent is taken) within MaxQuarterTurns quarter turns of zero
MaxQuarterTurns == 4

(***************************************************************************)
(* f64 scalars, as exact rationals.                                        *)
(***************************************************************************)
Abs(n) == IF n < 0 THEN -n ELSE n

RECURSIVE GCD(_, _)
GCD(a, b) == IF b = 0 THEN a ELSE GCD(b, a % b)

\* the scalar n/d (d # 0) in lowest terms
Rat(n, d) ==
    LET g == GCD(Abs(n), Abs(d))
        sgn == IF d < 0 THEN -1 ELSE 1
    IN  <<(sgn * n) \div g, (sgn * d) \div g>>

\* an integer literal such as 1.0 or 2.0
F(n) == <<n, 1>>

RAdd(p, q) == Rat(p[1] * q[2] + q[1] * p[2], p[2] * q[2])
RSub(p, q) == Rat(p[1] * q[2] - q[1] * p[2], p[2] * q[2])
RMul(p, q) == Rat(p[1] * q[1], p[2] * q[2])
RDiv(p, q) == Rat(p[1] * q[2], p[2] * q[1])
RNeg(p) == <<-p[1], p[2]>>

RECURSIVE Pow2(_)
Pow2(k) == IF k = 0 THEN 1 ELSE 2 * Pow2(k - 1)

\* round-to-nearest, ties-to-even, of the positive scalar (n * up) / (d * down)
\* where n/d has been brought into [low, 2 * low), low = 2^(MantissaDigits-1)
RECURSIVE f64_fit(_, _, _, _, _)
f64_fit(n, d, up, down, low) ==
    IF n \div d >= 2 * low THEN f64_fit(n, 2 * d, 2 * up, down, low)
    ELSE IF n \div d < low THEN f64_fit(2 * n, d, up, 2 * down, low)
    ELSE LET m == n \div d
             twice == 2 * (n % d)
             significand == IF twice > d \/ (twice = d /\ m % 2 = 1) THEN m + 1 ELSE m
         IN  Rat(significand * up, down)

\* the nearest floating-point value to the scalar q
f64_round(q) ==
    IF q[1] = 0 THEN q
    ELSE IF q[1] < 0 THEN RNeg(f64_fit(-q[1], q[2], 1, 1, Pow2(MantissaDigits - 1)))
    ELSE f64_fit(q[1], q[2], 1, 1, Pow2(MantissaDigits - 1))

\* the arithmetic of f64: the exact result, rounded
f64_add(p, q) == f64_round(RAdd(p, q))
f64_sub(p, q) == f64_round(RSub(p, q))
f64_mul(p, q) == f64_round(RMul(p, q))
f64_div(p, q) == f64_round(RDiv(p, q))

\* f64::to_radians: degrees times pi / 180.  An angle in radians is held as
\* the rational r that stands for r * pi.
to_radians(t) == RMul(t, Rat(1, 180))

\* f64::cos, f64::sin and f64::tan, at the angles where they are rational:
\* the multiples of pi / 2, and for tan the odd multiples of pi / 4 as well
cos(r) ==
    LET k == RMul(r, F(2))
    IN  CASE k[2] = 1 /\ k[1] % 4 = 0 -> F(1)
          [] k[2] = 1 /\ k[1] % 4 = 1 -> F(0)
          [] k[2] = 1 /\ k[1] % 4 = 2 -> F(-1)
          [] k[2] = 1 /\ k[1] % 4 = 3 -> F(0)

sin(r) ==
    LET k == RMul(r, F(2))
    IN  CASE k[2] = 1 /\ k[1] % 4 = 0 -> F(0)
          [] k[2] = 1 /\ k[1] % 4 = 1 -> F(1)
          [] k[2] = 1 /\ k[1] % 4 = 2 -> F(0)
          [] k[2] = 1 /\ k[1] % 4 = 3 -> F(-1)

tan(r) ==
    LET k == RMul(r, F(4))
    IN  CASE k[2] = 1 /\ k[1] % 4 = 0 -> F(0)
          [] k[2] = 1 /\ k[1] % 4 = 1 -> F(1)
          [] k[2] = 1 /\ k[1] % 4 = 3 -> F(-1)

\* f64::powi
RECURSIVE powi(_, _)
powi(x, n) == IF n = 0 THEN F(1) ELSE RMul(x, powi(x, n - 1))

\* the two outcomes of an indexing call: the panic of an out-of-range index,
\* or the element returned
Panic == [panic |-> TRUE]
Returned(v) == [panic |-> FALSE, value |-> v]

\* Option<T>
None == [some |-> FALSE]
Some(v) == [some |-> TRUE, value |-> v]

(***************************************************************************)
(* Vector3D (src/src/vector.rs).                                           *)
(***************************************************************************)
Vector3D_new(x, y, z) == [x |-> x, y |-> y, z |-> z]

\* Vector3D::cross with the operands of the y component exchanged
Vector3D_cross_swapped_y(self, rhs) ==
    Vector3D_new(RSub(RMul(self.y, rhs.z), RMul(self.z, rhs.y)),
                 RSub(RMul(self.x, rhs.z), RMul(self.z, rhs.x)),
                 RSub(RMul(self.x, rhs.y), RMul(self.y, rhs.x)))

Vector3D_cross(self, rhs) ==
    Vector3D_new(RSub(RMul(self.y, rhs.z), RMul(self.z, rhs.y)),
                 RSub(RMul(self.z, rhs.x), RMul(self.x, rhs.z)),
                 RSub(RMul(self.x, rhs.y), RMul(self.y, rhs.x)))

Vector3D_dot(self, rhs) ==
    RAdd(RAdd(RMul(self.x, rhs.x), RMul(self.y, rhs.y)), RMul(self.z, rhs.z))

Vector3D_add(self, rhs) ==
    Vector3D_new(RAdd(self.x, rhs.x), RAdd(self.y, rhs.y), RAdd(self.z, rhs.z))

Vector3D_div(self, rhs) ==
    Vector3D_new(RDiv(self.x, rhs), RDiv(self.y, rhs), RDiv(self.z, rhs))

Vector3D_index(self, index) ==
    CASE index = 0 -> Returned(self.x)
      [] index = 1 -> Returned(self.y)
      [] index = 2 -> Returned(self.z)
      [] OTHER -> Panic

\* Mul<f64> for Vector3D: vector * scalar
Vector3D_mul_f64(self, rhs) ==
    Vector3D_new(RMul(self.x, rhs), RMul(self.y, rhs), RMul(self.z, rhs))

\* scalar * vector that returns its vector operand unscaled
f64_mul_Vector3D_unscaled(self, rhs) == rhs

\* Mul<Vector3D> for f64: scalar * vector
f64_mul_Vector3D(self, rhs) == Vector3D_mul_f64(rhs, self)

Vector3D_neg(self) == Vector3D_new(RNeg(self.x), RNeg(self.y), RNeg(self.z))

Vector3D_sub(self, rhs) ==
    Vector3D_new(RSub(self.x, rhs.x), RSub(self.y, rhs.y), RSub(self.z, rhs.z))

\* Vector3D::project that divides by self . self instead of rhs . rhs
Vector3D_project_self_norm(self, rhs) ==
    Vector3D_mul_f64(rhs, RDiv(Vector3D_dot(self, rhs), Vector3D_dot(self, self)))

Vector3D_project(self, rhs) ==
    Vector3D_mul_f64(rhs, RDiv(Vector3D_dot(self, rhs), Vector3D_dot(rhs, rhs)))

\* Vector3D::reject that subtracts self from the projection
Vector3D_reject_reversed(self, rhs) ==
    Vector3D_sub(Vector3D_project(self, rhs), self)

Vector3D_reject(self, rhs) == Vector3D_sub(self, Vector3D_project(self, rhs))

\* the same functions with every f64 operation rounded
Vector3D_dot_rounded(self, rhs) ==
    f64_add(f64_add(f64_mul(self.x, rhs.x), f64_mul(self.y, rhs.y)), f64_mul(self.z, rhs.z))

Vector3D_add_rounded(self, rhs) ==
    Vector3D_new(f64_add(self.x, rhs.x), f64_add(self.y, rhs.y), f64_add(self.z, rhs.z))

Vector3D_sub_rounded(self, rhs) ==
    Vector3D_new(f64_sub(self.x, rhs.x), f64_sub(self.y, rhs.y), f64_sub(self.z, rhs.z))

Vector3D_mul_f64_rounded(self, rhs) ==
    Vector3D_new(f64_mul(self.x, rhs), f64_mul(self.y, rhs), f64_mul(self.z, rhs))

Vector3D_project_rounded(self, rhs) ==
    Vector3D_mul_f64_rounded(rhs, f64_div(Vector3D_dot_rounded(self, rhs), Vector3D_dot_rounded(rhs, rhs)))

Vector3D_reject_rounded(self, rhs) ==
    Vector3D_sub_rounded(self, Vector3D_project_rounded(self, rhs))

(***************************************************************************)
(* Matrix3D (src/src/matrix.rs).                                           *)
(***************************************************************************)
Matrix3D_from_vector(a, b, c) == [n |-> <<a, b, c>>]

\* Matrix3D::new taking its arguments column by column
Matrix3D_new_column_major(n00, n01, n02, n10, n11, n12, n20, n21, n22) ==
    LET n1 == Vector3D_new(n00, n10, n20)
        n2 == Vector3D_new(n01, n11, n21)
        n3 == Vector3D_new(n02, n12, n22)
    IN  [n |-> <<n1, n2, n3>>]

Matrix3D_new(n00, n01, n02, n10, n11, n12, n20, n21, n22) ==
    LET n1 == Vector3D_new(n00, n01, n02)
        n2 == Vector3D_new(n10, n11, n12)
        n3 == Vector3D_new(n20, n21, n22)
    IN  [n |-> <<n1, n2, n3>>]

\* indexing that wraps an out-of-range index around
Matrix3D_index_wrapping(self, index) == Returned(self.n[(index % Len(self.n)) + 1])

\* self[index]: the bounds-checked access to the array of rows
Matrix3D_index(self, index) ==
    IF index < Len(self.n) THEN Returned(self.n[index + 1]) ELSE Panic

\* struct Matrix3DIterator, and the absence of one
Matrix3DIterator(n, index) == [live |-> TRUE, n |-> n, index |-> index]
NoIterator == [live |-> FALSE]

\* IntoIterator for Matrix3D
Matrix3D_into_iter(self) == Matrix3DIterator(self.n, 0)

\* Iterator::next reading self.n[i][j]
Matrix3DIterator_next_row_major(self) ==
    LET i == self.index \div 3
        j == self.index % 3
    IN  IF i < 3 /\ j < 3
        THEN [self |-> Matrix3DIterator(self.n, self.index + 1),
              value |-> Some(Vector3D_index(self.n[i + 1], j).value)]
        ELSE [self |-> self, value |-> None]

\* Iterator::next: the iterator after the call and the value returned
Matrix3DIterator_next(self) ==
    LET i == self.index \div 3
        j == self.index % 3
    IN  IF i < 3 /\ j < 3
        THEN [self |-> Matrix3DIterator(self.n, self.index + 1),
              value |-> Some(Vector3D_index(self.n[j + 1], i).value)]
        ELSE [self |-> self, value |-> None]

\* self[i][j]
At3(self, i, j) == Vector3D_index(Matrix3D_index(self, i).value, j).value

\* Matrix3D::determinant with the sign of its fifth product changed
Matrix3D_determinant_sign(self) ==
    RSub(RAdd(RSub(RAdd(RAdd(
        RMul(RMul(At3(self, 0, 0), At3(self, 1, 1)), At3(self, 2, 2)),
        RMul(RMul(At3(self, 0, 1), At3(self, 1, 2)), At3(self, 2, 0))),
        RMul(RMul(At3(self, 0, 2), At3(self, 1, 0)), At3(self, 2, 1))),
        RMul(RMul(At3(self, 0, 0), At3(self, 1, 2)), At3(self, 2, 1))),
        RMul(RMul(At3(self, 0, 1), At3(self, 1, 0)), At3(self, 2, 2))),
        RMul(RMul(At3(self, 0, 2), At3(self, 1, 1)), At3(self, 2, 0)))

\* Matrix3D::determinant with self[2][1] for self[2][2] in its first product
Matrix3D_determinant_index(self) ==
    RSub(RSub(RSub(RAdd(RAdd(
        RMul(RMul(At3(self, 0, 0), At3(self, 1, 1)), At3(self, 2, 1)),
        RMul(RMul(At3(self, 0, 1), At3(self, 1, 2)), At3(self, 2, 0))),
        RMul(RMul(At3(self, 0, 2), At3(self, 1, 0)), At3(self, 2, 1))),
        RMul(RMul(At3(self, 0, 0), At3(self, 1, 2)), At3(self, 2, 1))),
        RMul(RMul(At3(self, 0, 1), At3(self, 1, 0)), At3(self, 2, 2))),
        RMul(RMul(At3(self, 0, 2), At3(self, 1, 1)), At3(self, 2, 0)))

Matrix3D_determinant(self) ==
    RSub(RSub(RSub(RAdd(RAdd(
        RMul(RMul(At3(self, 0, 0), At3(self, 1, 1)), At3(self, 2, 2)),
        RMul(RMul(At3(self, 0, 1), At3(self, 1, 2)), At3(self, 2, 0))),
        RMul(RMul(At3(self, 0, 2), At3(self, 1, 0)), At3(self, 2, 1))),
        RMul(RMul(At3(self, 0, 0), At3(self, 1, 2)), At3(self, 2, 1))),
        RMul(RMul(At3(self, 0, 1), At3(self, 1, 0)), At3(self, 2, 2))),
        RMul(RMul(At3(self, 0, 2), At3(self, 1, 1)), At3(self, 2, 0)))

Matrix3D_identity ==
    Matrix3D_new(F(1), F(0), F(0), F(0), F(1), F(0), F(0), F(0), F(1))

\* the triple product of Matrix3D::inverse with the cross product reversed
Matrix3D_inverse_product_reversed(self) ==
    LET a == Matrix3D_index(self, 0).value
        b == Matrix3D_index(self, 1).value
        c == Matrix3D_index(self, 2).value
        r2 == Vector3D_cross(b, a)
    IN  Vector3D_dot(r2, c)

\* the local `product` of Matrix3D::inverse: (a x b) . c for the rows a, b, c
Matrix3D_inverse_product(self) ==
    LET a == Matrix3D_index(self, 0).value
        b == Matrix3D_index(self, 1).value
        c == Matrix3D_index(self, 2).value
        r2 == Vector3D_cross(a, b)
    IN  Vector3D_dot(r2, c)

\* Matrix3D::inverse that lays r0, r1, r2 out as rows instead of columns
Matrix3D_inverse_rows(self) ==
    LET a == Matrix3D_index(self, 0).value
        b == Matrix3D_index(self, 1).value
        c == Matrix3D_index(self, 2).value
        r0 == Vector3D_cross(b, c)
        r1 == Vector3D_cross(c, a)
        r2 == Vector3D_cross(a, b)
        product == Matrix3D_inverse_product(self)
    IN  IF product = F(0)
        THEN None
        ELSE LET inv_det == RDiv(F(1), product)
             IN  Some(Matrix3D_new(
                    RMul(r0.x, inv_det), RMul(r0.y, inv_det), RMul(r0.z, inv_det),
                    RMul(r1.x, inv_det), RMul(r1.y, inv_det), RMul(r1.z, inv_det),
                    RMul(r2.x, inv_det), RMul(r2.y, inv_det), RMul(r2.z, inv_det)))

\* Matrix3D::inverse that tests r2 . a, which is 0 for every matrix
Matrix3D_inverse_wrong_test(self) ==
    LET a == Matrix3D_index(self, 0).value
        b == Matrix3D_index(self, 1).value
        c == Matrix3D_index(self, 2).value
        r0 == Vector3D_cross(b, c)
        r1 == Vector3D_cross(c, a)
        r2 == Vector3D_cross(a, b)
        product == Matrix3D_inverse_product(self)
    IN  IF Vector3D_dot(r2, a) = F(0)
        THEN None
        ELSE LET inv_det == RDiv(F(1), product)
             IN  Some(Matrix3D_new(
                    RMul(r0.x, inv_det), RMul(r1.x, inv_det), RMul(r2.x, inv_det),
                    RMul(r0.y, inv_det), RMul(r1.y, inv_det), RMul(r2.y, inv_det),
                    RMul(r0.z, inv_det), RMul(r1.z, inv_det), RMul(r2.z, inv_det)))

Matrix3D_inverse(self) ==
    LET a == Matrix3D_index(self, 0).value
        b == Matrix3D_index(self, 1).value
        c == Matrix3D_index(self, 2).value
        r0 == Vector3D_cross(b, c)
        r1 == Vector3D_cross(c, a)
        r2 == Vector3D_cross(a, b)
        product == Matrix3D_inverse_product(self)
    IN  IF product = F(0)
        THEN None
        ELSE LET inv_det == RDiv(F(1), product)
             IN  Some(Matrix3D_new(
                    RMul(r0.x, inv_det), RMul(r1.x, inv_det), RMul(r2.x, inv_det),
                    RMul(r0.y, inv_det), RMul(r1.y, inv_det), RMul(r2.y, inv_det),
                    RMul(r0.z, inv_det), RMul(r1.z, inv_det), RMul(r2.z, inv_det)))

\* Mul<f64> for Matrix3D: matrix * scalar
Matrix3D_mul_f64(self, rhs) ==
    Matrix3D_new(
        RMul(At3(self, 0, 0), rhs), RMul(At3(self, 0, 1), rhs), RMul(At3(self, 0, 2), rhs),
        RMul(At3(self, 1, 0), rhs), RMul(At3(self, 1, 1), rhs), RMul(At3(self, 1, 2), rhs),
        RMul(At3(self, 2, 0), rhs), RMul(At3(self, 2, 1), rhs), RMul(At3(self, 2, 2), rhs))

\* Mul<Matrix3D> for f64: scalar * matrix
f64_mul_Matrix3D(self, rhs) == Matrix3D_mul_f64(rhs, self)

\* the entry's sum taken down the columns of both operands
Matrix3D_mul_entry_columns(self, rhs, i, j) ==
    RAdd(RAdd(RMul(At3(self, 0, i), At3(rhs, 0, j)),
              RMul(At3(self, 1, i), At3(rhs, 1, j))),
         RMul(At3(self, 2, i), At3(rhs, 2, j)))

\* one entry of Mul<Matrix3D> for Matrix3D: row i of self times column j of rhs
Matrix3D_mul_entry(self, rhs, i, j) ==
    RAdd(RAdd(RMul(At3(self, i, 0), At3(rhs, 0, j)),
              RMul(At3(self, i, 1), At3(rhs, 1, j))),
         RMul(At3(self, i, 2), At3(rhs, 2, j)))

\* Mul<Matrix3D> for Matrix3D
Matrix3D_mul(self, rhs) ==
    Matrix3D_new(
        Matrix3D_mul_entry(self, rhs, 0, 0), Matrix3D_mul_entry(self, rhs, 0, 1),
        Matrix3D_mul_entry(self, rhs, 0, 2),
        Matrix3D_mul_entry(self, rhs, 1, 0), Matrix3D_mul_entry(self, rhs, 1, 1),
        Matrix3D_mul_entry(self, rhs, 1, 2),
        Matrix3D_mul_entry(self, rhs, 2, 0), Matrix3D_mul_entry(self, rhs, 2, 1),
        Matrix3D_mul_entry(self, rhs, 2, 2))

\* Mul<Vector3D> for Matrix3D
Matrix3D_mul_Vector3D(self, rhs) ==
    Vector3D_new(
        RAdd(RAdd(RMul(At3(self, 0, 0), rhs.x), RMul(At3(self, 0, 1), rhs.y)),
             RMul(At3(self, 0, 2), rhs.z)),
        RAdd(RAdd(RMul(At3(self, 1, 0), rhs.x), RMul(At3(self, 1, 1), rhs.y)),
             RMul(At3(self, 1, 2), rhs.z)),
        RAdd(RAdd(RMul(At3(self, 2, 0), rhs.x), RMul(At3(self, 2, 1), rhs.y)),
             RMul(At3(self, 2, 2), rhs.z)))

\* make_rotation_x turning the other way
Matrix3D_make_rotation_x_clockwise(t) ==
    LET r == to_radians(t)
        c == cos(r)
        s == sin(r)
    IN  Matrix3D_new(F(1), F(0), F(0), F(0), c, s, F(0), RNeg(s), c)

Matrix3D_make_rotation_x(t) ==
    LET r == to_radians(t)
        c == cos(r)
        s == sin(r)
    IN  Matrix3D_new(F(1), F(0), F(0), F(0), c, RNeg(s), F(0), s, c)

Matrix3D_make_rotation_y(t) ==
    LET r == to_radians(t)
        c == cos(r)
        s == sin(r)
    IN  Matrix3D_new(c, F(0), s, F(0), F(1), F(0), RNeg(s), F(0), c)

Matrix3D_make_rotation_z(t) ==
    LET r == to_radians(t)
        c == cos(r)
        s == sin(r)
    IN  Matrix3D_new(c, RNeg(s), F(0), s, c, F(0), F(0), F(0), F(1))

\* the matrix of make_rotation with the sign of every s term reversed
Matrix3D_rotation_reversed(c, s, a) ==
    Matrix3D_new(
        RAdd(c, RMul(RSub(F(1), c), powi(a.x, 2))),
        RAdd(RMul(RMul(RSub(F(1), c), a.x), a.y), RMul(s, a.z)),
        RSub(RMul(RMul(RSub(F(1), c), a.x), a.z), RMul(s, a.y)),
        RSub(RMul(RMul(RSub(F(1), c), a.x), a.y), RMul(s, a.z)),
        RAdd(c, RMul(RSub(F(1), c), powi(a.y, 2))),
        RAdd(RMul(RMul(RSub(F(1), c), a.y), a.z), RMul(s, a.x)),
        RAdd(RMul(RMul(RSub(F(1), c), a.x), a.z), RMul(s, a.y)),
        RSub(RMul(RMul(RSub(F(1), c), a.y), a.z), RMul(s, a.x)),
        RAdd(c, RMul(RSub(F(1), c), powi(a.z, 2))))

\* the matrix make_rotation builds from c, s and the axis a
Matrix3D_rotation(c, s, a) ==
    Matrix3D_new(
        RAdd(c, RMul(RSub(F(1), c), powi(a.x, 2))),
        RSub(RMul(RMul(RSub(F(1), c), a.x), a.y), RMul(s, a.z)),
        RAdd(RMul(RMul(RSub(F(1), c), a.x), a.z), RMul(s, a.y)),
        RAdd(RMul(RMul(RSub(F(1), c), a.x), a.y), RMul(s, a.z)),
        RAdd(c, RMul(RSub(F(1), c), powi(a.y, 2))),
        RSub(RMul(RMul(RSub(F(1), c), a.y), a.z), RMul(s, a.x)),
        RSub(RMul(RMul(RSub(F(1), c), a.x), a.z), RMul(s, a.y)),
        RAdd(RMul(RMul(RSub(F(1), c), a.y), a.z), RMul(s, a.x)),
        RAdd(c, RMul(RSub(F(1), c), powi(a.z, 2))))

Matrix3D_make_rotation(t, a) ==
    LET r == to_radians(t)
        c == cos(r)
        s == sin(r)
    IN  Matrix3D_rotation(c, s, a)

\* f64::cos and f64::sin at angles where they are not rational: the value
\* returned is the float nearest to the cosine or sine, taken here from their
\* decimal expansions to four places
CosineTenThousandths(degrees) ==
    CASE degrees = 30 -> 8660 [] degrees = 60 -> 5000 [] degrees = 91 -> -175
      [] degrees = 95 -> -872 [] degrees = 116 -> -4384 [] degrees = 124 -> -5592
      [] degrees = 150 -> -8660 [] degrees = 200 -> -9397

SineTenThousandths(degrees) ==
    CASE degrees = 30 -> 5000 [] degrees = 60 -> 8660 [] degrees = 91 -> 9998
      [] degrees = 95 -> 9962 [] degrees = 116 -> 8988 [] degrees = 124 -> 8290
      [] degrees = 150 -> 5000 [] degrees = 200 -> -3420

cos_rounded(r) == f64_round(Rat(CosineTenThousandths(RMul(r, F(180))[1]), 10000))
sin_rounded(r) == f64_round(Rat(SineTenThousandths(RMul(r, F(180))[1]), 10000))

RECURSIVE powi_rounded(_, _)
powi_rounded(x, n) == IF n = 0 THEN F(1) ELSE f64_mul(x, powi_rounded(x, n - 1))

\* the rotations with every f64 operation rounded
Matrix3D_rotation_rounded(c, s, a) ==
    Matrix3D_new(
        f64_add(c, f64_mul(f64_sub(F(1), c), powi_rounded(a.x, 2))),
        f64_sub(f64_mul(f64_mul(f64_sub(F(1), c), a.x), a.y), f64_mul(s, a.z)),
        f64_add(f64_mul(f64_mul(f64_sub(F(1), c), a.x), a.z), f64_mul(s, a.y)),
        f64_add(f64_mul(f64_mul(f64_sub(F(1), c), a.x), a.y), f64_mul(s, a.z)),
        f64_add(c, f64_mul(f64_sub(F(1), c), powi_rounded(a.y, 2))),
        f64_sub(f64_mul(f64_mul(f64_sub(F(1), c), a.y), a.z), f64_mul(s, a.x)),
        f64_sub(f64_mul(f64_mul(f64_sub(F(1), c), a.x), a.z), f64_mul(s, a.y)),
        f64_add(f64_mul(f64_mul(f64_sub(F(1), c), a.y), a.z), f64_mul(s, a.x)),
        f64_add(c, f64_mul(f64_sub(F(1), c), powi_rounded(a.z, 2))))

Matrix3D_make_rotation_rounded(t, a) ==
    LET r == to_radians(t)
        c == cos_rounded(r)
        s == sin_rounded(r)
    IN  Matrix3D_rotation_rounded(c, s, a)

Matrix3D_make_rotation_x_rounded(t) ==
    LET r == to_radians(t)
        c == cos_rounded(r)
        s == sin_rounded(r)
    IN  Matrix3D_new(F(1), F(0), F(0), F(0), c, RNeg(s), F(0), s, c)

Matrix3D_make_rotation_y_rounded(t) ==
    LET r == to_radians(t)
        c == cos_rounded(r)
        s == sin_rounded(r)
    IN  Matrix3D_new(c, F(0), s, F(0), F(1), F(0), RNeg(s), F(0), c)

Matrix3D_make_rotation_z_rounded(t) ==
    LET r == to_radians(t)
        c == cos_rounded(r)
        s == sin_rounded(r)
    IN  Matrix3D_new(c, RNeg(s), F(0), s, c, F(0), F(0), F(0), F(1))

\* make_involution with + 1.0 for - 1.0 on the diagonal
Matrix3D_make_involution_plus(a) ==
    Matrix3D_new(
        RAdd(RMul(F(2), powi(a.x, 2)), F(1)), RMul(RMul(F(2), a.x), a.y), RMul(RMul(F(2), a.x), a.z),
        RMul(RMul(F(2), a.x), a.y), RAdd(RMul(F(2), powi(a.y, 2)), F(1)), RMul(RMul(F(2), a.y), a.z),
        RMul(RMul(F(2), a.x), a.z), RMul(RMul(F(2), a.y), a.z), RAdd(RMul(F(2), powi(a.z, 2)), F(1)))

Matrix3D_make_involution(a) ==
    Matrix3D_new(
        RSub(RMul(F(2), powi(a.x, 2)), F(1)), RMul(RMul(F(2), a.x), a.y), RMul(RMul(F(2), a.x), a.z),
        RMul(RMul(F(2), a.x), a.y), RSub(RMul(F(2), powi(a.y, 2)), F(1)), RMul(RMul(F(2), a.y), a.z),
        RMul(RMul(F(2), a.x), a.z), RMul(RMul(F(2), a.y), a.z), RSub(RMul(F(2), powi(a.z, 2)), F(1)))

\* make_reflection without the factor 2.0 on the diagonal
Matrix3D_make_reflection_single(a) ==
    Matrix3D_new(
        RSub(F(1), powi(a.x, 2)), RMul(RMul(F(-2), a.x), a.y), RMul(RMul(F(-2), a.x), a.z),
        RMul(RMul(F(-2), a.x), a.y), RSub(F(1), powi(a.y, 2)), RMul(RMul(F(-2), a.y), a.z),
        RMul(RMul(F(-2), a.x), a.z), RMul(RMul(F(-2), a.y), a.z), RSub(F(1), powi(a.z, 2)))

Matrix3D_make_reflection(a) ==
    Matrix3D_new(
        RSub(F(1), RMul(F(2), powi(a.x, 2))), RMul(RMul(F(-2), a.x), a.y), RMul(RMul(F(-2), a.x), a.z),
        RMul(RMul(F(-2), a.x), a.y), RSub(F(1), RMul(F(2), powi(a.y, 2))), RMul(RMul(F(-2), a.y), a.z),
        RMul(RMul(F(-2), a.x), a.z), RMul(RMul(F(-2), a.y), a.z), RSub(F(1), RMul(F(2), powi(a.z, 2))))

Matrix3D_make_scale(sx, sy, sz) ==
    Matrix3D_new(sx, F(0), F(0), F(0), sy, F(0), F(0), F(0), sz)

\* make_directional_scale with s for s - 1.0
Matrix3D_make_directional_scale_full(s, a) ==
    Matrix3D_new(
        RAdd(RMul(s, powi(a.x, 2)), F(1)), RMul(RMul(s, a.x), a.y), RMul(RMul(s, a.x), a.z),
        RMul(RMul(s, a.x), a.y), RAdd(RMul(s, powi(a.y, 2)), F(1)), RMul(RMul(s, a.y), a.z),
        RMul(RMul(s, a.x), a.z), RMul(RMul(s, a.y), a.z), RAdd(RMul(s, powi(a.z, 2)), F(1)))

Matrix3D_make_directional_scale(s, a) ==
    Matrix3D_new(
        RAdd(RMul(RSub(s, F(1)), powi(a.x, 2)), F(1)), RMul(RMul(RSub(s, F(1)), a.x), a.y), RMul(RMul(RSub(s, F(1)), a.x), a.z),
        RMul(RMul(RSub(s, F(1)), a.x), a.y), RAdd(RMul(RSub(s, F(1)), powi(a.y, 2)), F(1)), RMul(RMul(RSub(s, F(1)), a.y), a.z),
        RMul(RMul(RSub(s, F(1)), a.x), a.z), RMul(RMul(RSub(s, F(1)), a.y), a.z), RAdd(RMul(RSub(s, F(1)), powi(a.z, 2)), F(1)))

\* make_skew with a and b exchanged
Matrix3D_make_skew_exchanged(theta, a, b) ==
    LET t == tan(to_radians(theta))
    IN  Matrix3D_new(
            RAdd(RMul(RMul(b.x, a.x), t), F(1)), RMul(RMul(b.x, a.y), t), RMul(RMul(b.x, a.z), t),
            RMul(RMul(b.y, a.x), t), RAdd(RMul(RMul(b.y, a.y), t), F(1)), RMul(RMul(b.y, a.z), t),
            RMul(RMul(b.z, a.x), t), RMul(RMul(b.z, a.y), t), RAdd(RMul(RMul(b.z, a.z), t), F(1)))

Matrix3D_make_skew(theta, a, b) ==
    LET t == tan(to_radians(theta))
    IN  Matrix3D_new(
            RAdd(RMul(RMul(a.x, b.x), t), F(1)), RMul(RMul(a.x, b.y), t), RMul(RMul(a.x, b.z), t),
            RMul(RMul(a.y, b.x), t), RAdd(RMul(RMul(a.y, b.y), t), F(1)), RMul(RMul(a.y, b.z), t),
            RMul(RMul(a.z, b.x), t), RMul(RMul(a.z, b.y), t), RAdd(RMul(RMul(a.z, b.z), t), F(1)))

(***************************************************************************)
(* Vector4D: four f64 components x, y, z, w, built by new and read by      *)
(* index 0..3 (imported by src/src/matrix.rs from the vector module).      *)
(***************************************************************************)
Vector4D_new(x, y, z, w) == [x |-> x, y |-> y, z |-> z, w |-> w]

Vector4D_index(self, index) ==
    CASE index = 0 -> Returned(self.x)
      [] index = 1 -> Returned(self.y)
      [] index = 2 -> Returned(self.z)
      [] index = 3 -> Returned(self.w)
      [] OTHER -> Panic

(***************************************************************************)
(* Matrix4D (src/src/matrix.rs).                                           *)
(***************************************************************************)
Matrix4D_from_vector(a, b, c, d) ==
    LET n == <<a, b, c, d>>
    IN  [n |-> n]

Matrix4D_new(n00, n01, n02, n03, n10, n11, n12, n13, n20, n21, n22, n23, n30, n31, n32, n33) ==
    LET n1 == Vector4D_new(n00, n01, n02, n03)
        n2 == Vector4D_new(n10, n11, n12, n13)
        n3 == Vector4D_new(n20, n21, n22, n23)
        n4 == Vector4D_new(n30, n31, n32, n33)
    IN  [n |-> <<n1, n2, n3, n4>>]

\* self[index]: the bounds-checked access to the array of rows
Matrix4D_index(self, index) ==
    IF index < Len(self.n) THEN Returned(self.n[index + 1]) ELSE Panic

\* self[i][j]
At4(self, i, j) == Vector4D_index(Matrix4D_index(self, i).value, j).value

\* one product of Matrix4D::determinant:
\* self[0][j0] * self[1][j1] * self[2][j2] * self[3][j3]
T4(self, j0, j1, j2, j3) ==
    RMul(RMul(RMul(At4(self, 0, j0), At4(self, 1, j1)), At4(self, 2, j2)),
         At4(self, 3, j3))

\* Matrix4D::determinant with the sign of its thirteenth product changed
Matrix4D_determinant_sign(self) ==
    RAdd(RAdd(RAdd(RSub(RSub(RSub(RSub(RSub(RSub(RAdd(RAdd(RSub(RAdd(RAdd(RAdd(RSub(RSub(RSub(RSub(RSub(RSub(RAdd(RAdd(
        T4(self, 0, 1, 2, 3),
        T4(self, 0, 2, 3, 1)),
        T4(self, 0, 3, 1, 2)),
        T4(self, 0, 3, 2, 1)),
        T4(self, 0, 2, 1, 3)),
        T4(self, 0, 1, 3, 2)),
        T4(self, 1, 0, 2, 3)),
        T4(self, 2, 0, 3, 1)),
        T4(self, 3, 0, 1, 2)),
        T4(self, 3, 0, 2, 1)),
        T4(self, 2, 0, 1, 3)),
        T4(self, 1, 0, 3, 2)),
        T4(self, 1, 2, 0, 3)),
        T4(self, 2, 3, 0, 1)),
        T4(self, 3, 1, 0, 2)),
        T4(self, 3, 2, 0, 1)),
        T4(self, 2, 1, 0, 3)),
        T4(self, 1, 3, 0, 2)),
        T4(self, 1, 2, 3, 0)),
        T4(self, 2, 3, 1, 0)),
        T4(self, 3, 1, 2, 0)),
        T4(self, 3, 2, 1, 0)),
        T4(self, 2, 1, 3, 0)),
        T4(self, 1, 3, 2, 0))

Matrix4D_determinant(self) ==
    RAdd(RAdd(RAdd(RSub(RSub(RSub(RSub(RSub(RSub(RAdd(RAdd(RAdd(RAdd(RAdd(RAdd(RSub(RSub(RSub(RSub(RSub(RSub(RAdd(RAdd(
        T4(self, 0, 1, 2, 3),
        T4(self, 0, 2, 3, 1)),
        T4(self, 0, 3, 1, 2)),
        T4(self, 0, 3, 2, 1)),
        T4(self, 0, 2, 1, 3)),
        T4(self, 0, 1, 3, 2)),
        T4(self, 1, 0, 2, 3)),
        T4(self, 2, 0, 3, 1)),
        T4(self, 3, 0, 1, 2)),
        T4(self, 3, 0, 2, 1)),
        T4(self, 2, 0, 1, 3)),
        T4(self, 1, 0, 3, 2)),
        T4(self, 1, 2, 0, 3)),
        T4(self, 2, 3, 0, 1)),
        T4(self, 3, 1, 0, 2)),
        T4(self, 3, 2, 0, 1)),
        T4(self, 2, 1, 0, 3)),
        T4(self, 1, 3, 0, 2)),
        T4(self, 1, 2, 3, 0)),
        T4(self, 2, 3, 1, 0)),
        T4(self, 3, 1, 2, 0)),
        T4(self, 3, 2, 1, 0)),
        T4(self, 2, 1, 3, 0)),
        T4(self, 1, 3, 2, 0))

Matrix4D_identity ==
    Matrix4D_new(F(1), F(0), F(0), F(0), F(0), F(1), F(0), F(0),
                 F(0), F(0), F(1), F(0), F(0), F(0), F(0), F(1))

\* the scalar of Matrix4D::inverse with u = y*a + x*b
Matrix4D_inverse_product_plus(self) ==
    LET a == Vector3D_new(At4(self, 0, 0), At4(self, 1, 0), At4(self, 2, 0))
        b == Vector3D_new(At4(self, 0, 1), At4(self, 1, 1), At4(self, 2, 1))
        c == Vector3D_new(At4(self, 0, 2), At4(self, 1, 2), At4(self, 2, 2))
        d == Vector3D_new(At4(self, 0, 3), At4(self, 1, 3), At4(self, 2, 3))
        x == At4(self, 3, 0)
        y == At4(self, 3, 1)
        z == At4(self, 3, 2)
        w == At4(self, 3, 3)
        s == Vector3D_cross(a, b)
        t == Vector3D_cross(c, d)
        u == Vector3D_add(f64_mul_Vector3D(y, a), f64_mul_Vector3D(x, b))
        v == Vector3D_sub(f64_mul_Vector3D(w, c), f64_mul_Vector3D(z, d))
    IN  RAdd(Vector3D_dot(s, v), Vector3D_dot(t, u))

\* the local `product` of Matrix4D::inverse: s . v + t . u
Matrix4D_inverse_product(self) ==
    LET a == Vector3D_new(At4(self, 0, 0), At4(self, 1, 0), At4(self, 2, 0))
        b == Vector3D_new(At4(self, 0, 1), At4(self, 1, 1), At4(self, 2, 1))
        c == Vector3D_new(At4(self, 0, 2), At4(self, 1, 2), At4(self, 2, 2))
        d == Vector3D_new(At4(self, 0, 3), At4(self, 1, 3), At4(self, 2, 3))
        x == At4(self, 3, 0)
        y == At4(self, 3, 1)
        z == At4(self, 3, 2)
        w == At4(self, 3, 3)
        s == Vector3D_cross(a, b)
        t == Vector3D_cross(c, d)
        u == Vector3D_sub(f64_mul_Vector3D(y, a), f64_mul_Vector3D(x, b))
        v == Vector3D_sub(f64_mul_Vector3D(w, c), f64_mul_Vector3D(z, d))
    IN  RAdd(Vector3D_dot(s, v), Vector3D_dot(t, u))

\* Matrix4D::inverse with r1 = v x a + t * x
Matrix4D_inverse_plus(self) ==
    LET a == Vector3D_new(At4(self, 0, 0), At4(self, 1, 0), At4(self, 2, 0))
        b == Vector3D_new(At4(self, 0, 1), At4(self, 1, 1), At4(self, 2, 1))
        c == Vector3D_new(At4(self, 0, 2), At4(self, 1, 2), At4(self, 2, 2))
        d == Vector3D_new(At4(self, 0, 3), At4(self, 1, 3), At4(self, 2, 3))
        x == At4(self, 3, 0)
        y == At4(self, 3, 1)
        z == At4(self, 3, 2)
        w == At4(self, 3, 3)
        s0 == Vector3D_cross(a, b)
        t0 == Vector3D_cross(c, d)
        u0 == Vector3D_sub(f64_mul_Vector3D(y, a), f64_mul_Vector3D(x, b))
        v0 == Vector3D_sub(f64_mul_Vector3D(w, c), f64_mul_Vector3D(z, d))
        product == Matrix4D_inverse_product(self)
    IN  IF product = F(0)
        THEN None
        ELSE LET inv_det == RDiv(F(1), RAdd(Vector3D_dot(s0, v0), Vector3D_dot(t0, u0)))
                 s == Vector3D_mul_f64(s0, inv_det)
                 t == Vector3D_mul_f64(t0, inv_det)
                 u == Vector3D_mul_f64(u0, inv_det)
                 v == Vector3D_mul_f64(v0, inv_det)
                 r0 == Vector3D_add(Vector3D_cross(b, v), Vector3D_mul_f64(t, y))
                 r1 == Vector3D_add(Vector3D_cross(v, a), Vector3D_mul_f64(t, x))
                 r2 == Vector3D_add(Vector3D_cross(d, u), Vector3D_mul_f64(s, w))
                 r3 == Vector3D_sub(Vector3D_cross(u, c), Vector3D_mul_f64(s, z))
             IN  Some(Matrix4D_new(
                    r0.x, r0.y, r0.z, RNeg(Vector3D_dot(b, t)),
                    r1.x, r1.y, r1.z, Vector3D_dot(a, t),
                    r2.x, r2.y, r2.z, RNeg(Vector3D_dot(d, s)),
                    r3.x, r3.y, r3.z, Vector3D_dot(c, s)))

Matrix4D_inverse(self) ==
    LET a == Vector3D_new(At4(self, 0, 0), At4(self, 1, 0), At4(self, 2, 0))
        b == Vector3D_new(At4(self, 0, 1), At4(self, 1, 1), At4(self, 2, 1))
        c == Vector3D_new(At4(self, 0, 2), At4(self, 1, 2), At4(self, 2, 2))
        d == Vector3D_new(At4(self, 0, 3), At4(self, 1, 3), At4(self, 2, 3))
        x == At4(self, 3, 0)
        y == At4(self, 3, 1)
        z == At4(self, 3, 2)
        w == At4(self, 3, 3)
        s0 == Vector3D_cross(a, b)
        t0 == Vector3D_cross(c, d)
        u0 == Vector3D_sub(f64_mul_Vector3D(y, a), f64_mul_Vector3D(x, b))
        v0 == Vector3D_sub(f64_mul_Vector3D(w, c), f64_mul_Vector3D(z, d))
        product == Matrix4D_inverse_product(self)
    IN  IF product = F(0)
        THEN None
        ELSE LET inv_det == RDiv(F(1), RAdd(Vector3D_dot(s0, v0), Vector3D_dot(t0, u0)))
                 s == Vector3D_mul_f64(s0, inv_det)
                 t == Vector3D_mul_f64(t0, inv_det)
                 u == Vector3D_mul_f64(u0, inv_det)
                 v == Vector3D_mul_f64(v0, inv_det)
                 r0 == Vector3D_add(Vector3D_cross(b, v), Vector3D_mul_f64(t, y))
                 r1 == Vector3D_sub(Vector3D_cross(v, a), Vector3D_mul_f64(t, x))
                 r2 == Vector3D_add(Vector3D_cross(d, u), Vector3D_mul_f64(s, w))
                 r3 == Vector3D_sub(Vector3D_cross(u, c), Vector3D_mul_f64(s, z))
             IN  Some(Matrix4D_new(
                    r0.x, r0.y, r0.z, RNeg(Vector3D_dot(b, t)),
                    r1.x, r1.y, r1.z, Vector3D_dot(a, t),
                    r2.x, r2.y, r2.z, RNeg(Vector3D_dot(d, s)),
                    r3.x, r3.y, r3.z, Vector3D_dot(c, s)))

\* Mul<f64> for Matrix4D: matrix * scalar
Matrix4D_mul_f64(self, rhs) ==
    Matrix4D_new(
        RMul(At4(self, 0, 0), rhs), RMul(At4(self, 0, 1), rhs),
        RMul(At4(self, 0, 2), rhs), RMul(At4(self, 0, 3), rhs),
        RMul(At4(self, 1, 0), rhs), RMul(At4(self, 1, 1), rhs),
        RMul(At4(self, 1, 2), rhs), RMul(At4(self, 1, 3), rhs),
        RMul(At4(self, 2, 0), rhs), RMul(At4(self, 2, 1), rhs),
        RMul(At4(self, 2, 2), rhs), RMul(At4(self, 2, 3), rhs),
        RMul(At4(self, 3, 0), rhs), RMul(At4(self, 3, 1), rhs),
        RMul(At4(self, 3, 2), rhs), RMul(At4(self, 3, 3), rhs))

\* Mul<Matrix4D> for f64: scalar * matrix
f64_mul_Matrix4D(self, rhs) == Matrix4D_mul_f64(rhs, self)

\* one entry of Mul<Matrix4D> for Matrix4D: row i of self times column j of rhs
Matrix4D_mul_entry(self, rhs, i, j) ==
    RAdd(RAdd(RAdd(RMul(At4(self, i, 0), At4(rhs, 0, j)),
                   RMul(At4(self, i, 1), At4(rhs, 1, j))),
              RMul(At4(self, i, 2), At4(rhs, 2, j))),
         RMul(At4(self, i, 3), At4(rhs, 3, j)))

\* Mul<Matrix4D> for Matrix4D
Matrix4D_mul(self, rhs) ==
    Matrix4D_new(
        Matrix4D_mul_entry(self, rhs, 0, 0), Matrix4D_mul_entry(self, rhs, 0, 1),
        Matrix4D_mul_entry(self, rhs, 0, 2), Matrix4D_mul_entry(self, rhs, 0, 3),
        Matrix4D_mul_entry(self, rhs, 1, 0), Matrix4D_mul_entry(self, rhs, 1, 1),
        Matrix4D_mul_entry(self, rhs, 1, 2), Matrix4D_mul_entry(self, rhs, 1, 3),
        Matrix4D_mul_entry(self, rhs, 2, 0), Matrix4D_mul_entry(self, rhs, 2, 1),
        Matrix4D_mul_entry(self, rhs, 2, 2), Matrix4D_mul_entry(self, rhs, 2, 3),
        Matrix4D_mul_entry(self, rhs, 3, 0), Matrix4D_mul_entry(self, rhs, 3, 1),
        Matrix4D_mul_entry(self, rhs, 3, 2), Matrix4D_mul_entry(self, rhs, 3, 3))

\* the sums taken down the columns of the matrix
Matrix4D_mul_Vector4D_transposed(self, rhs) ==
    Vector4D_new(
        RAdd(RAdd(RAdd(RMul(At4(self, 0, 0), rhs.x), RMul(At4(self, 1, 0), rhs.y)),
                  RMul(At4(self, 2, 0), rhs.z)), RMul(At4(self, 3, 0), rhs.w)),
        RAdd(RAdd(RAdd(RMul(At4(self, 0, 1), rhs.x), RMul(At4(self, 1, 1), rhs.y)),
                  RMul(At4(self, 2, 1), rhs.z)), RMul(At4(self, 3, 1), rhs.w)),
        RAdd(RAdd(RAdd(RMul(At4(self, 0, 2), rhs.x), RMul(At4(self, 1, 2), rhs.y)),
                  RMul(At4(self, 2, 2), rhs.z)), RMul(At4(self, 3, 2), rhs.w)),
        RAdd(RAdd(RAdd(RMul(At4(self, 0, 3), rhs.x), RMul(At4(self, 1, 3), rhs.y)),
                  RMul(At4(self, 2, 3), rhs.z)), RMul(At4(self, 3, 3), rhs.w)))

\* Mul<Vector4D> for Matrix4D
Matrix4D_mul_Vector4D(self, rhs) ==
    Vector4D_new(
        RAdd(RAdd(RAdd(RMul(At4(self, 0, 0), rhs.x), RMul(At4(self, 0, 1), rhs.y)),
                  RMul(At4(self, 0, 2), rhs.z)), RMul(At4(self, 0, 3), rhs.w)),
        RAdd(RAdd(RAdd(RMul(At4(self, 1, 0), rhs.x), RMul(At4(self, 1, 1), rhs.y)),
                  RMul(At4(self, 1, 2), rhs.z)), RMul(At4(self, 1, 3), rhs.w)),
        RAdd(RAdd(RAdd(RMul(At4(self, 2, 0), rhs.x), RMul(At4(self, 2, 1), rhs.y)),
                  RMul(At4(self, 2, 2), rhs.z)), RMul(At4(self, 2, 3), rhs.w)),
        RAdd(RAdd(RAdd(RMul(At4(self, 3, 0), rhs.x), RMul(At4(self, 3, 1), rhs.y)),
                  RMul(At4(self, 3, 2), rhs.z)), RMul(At4(self, 3, 3), rhs.w)))

(***************************************************************************)
(* Operands.                                                               *)
(***************************************************************************)
Ints == (0 - MaxEntry) .. MaxEntry

\* scalars: the integers and the halves of the range
Scalars == {Rat(k, 2) : k \in (0 - 2 * MaxEntry) .. (2 * MaxEntry)}

Vectors3 == {Vector3D_new(F(x), F(y), F(z)) : x, y, z \in Ints}

\* the matrices of the tests matrix3d_tests::determinant and ::matrix_inversion
Samples3 ==
    { Matrix3D_new(F(3), F(5), F(6), F(4), F(5), F(6), F(7), F(8), F(9)),
      Matrix3D_new(F(0), F(0), F(0), F(1), F(2), F(3), F(4), F(5), F(6)),
      Matrix3D_new(F(1), F(2), F(3), F(5), F(5), F(6), F(7), F(8), F(9)),
      Matrix3D_new(F(2), F(0), F(0), F(0), F(2), F(0), F(0), F(0), F(2)),
      Matrix3D_identity }

\* third rows tried with every pair of enumerated first and second rows
ThirdRows3(a, b) ==
    { Vector3D_new(F(0), F(0), F(0)), Vector3D_new(F(7), F(8), F(9)),
      Vector3D_new(Rat(1, 2), Rat(-3, 2), F(2)), Vector3D_add(a, b) }

Diagonals3 ==
    {Matrix3D_new(F(p), F(0), F(0), F(0), F(q), F(0), F(0), F(0), F(r)) : p, q, r \in Ints}

\* some Matrix3D operand: a sample, a diagonal matrix, or rows a, b, c
WithMatrix3D(Act(_)) ==
    \/ \E m \in Samples3 \cup Diagonals3 : Act(m)
    \/ \E a, b \in Vectors3 : \E c \in ThirdRows3(a, b) :
            Act(Matrix3D_from_vector(a, b, c))

Vectors4 == {Vector4D_new(F(x), F(y), F(z), F(w)) : x, y, z, w \in Ints}

\* the matrices of the tests matrix4d_tests::determinant and ::matrix_inversion,
\* and one matrix without zero entries or repeated rows
Samples4 ==
    { Matrix4D_new(F(1), F(1), F(1), F(-1), F(1), F(1), F(-1), F(1),
                   F(1), F(-1), F(1), F(1), F(-1), F(1), F(1), F(1)),
      Matrix4D_new(F(0), F(0), F(0), F(0), F(1), F(2), F(3), F(4),
                   F(5), F(6), F(7), F(8), F(9), F(1), Rat(11, 10), Rat(12, 10)),
      Matrix4D_identity,
      Matrix4D_new(F(2), F(0), F(0), F(0), F(0), F(2), F(0), F(0),
                   F(0), F(0), F(2), F(0), F(0), F(0), F(0), F(2)),
      Matrix4D_new(F(1), F(1), F(1), F(0), F(0), F(3), F(1), F(2),
                   F(1), F(0), F(2), F(1), F(2), F(3), F(1), F(0)),
      Matrix4D_new(F(2), F(-1), F(3), F(5), F(1), F(4), F(-2), Rat(1, 2),
                   F(-3), F(2), F(1), F(-1), F(4), F(-5), F(2), F(3)) }

Diagonals4 ==
    {Matrix4D_new(F(p), F(0), F(0), F(0), F(0), F(q), F(0), F(0),
                  F(0), F(0), F(r), F(0), F(0), F(0), F(0), F(s)) : p, q, r, s \in Ints}

\* the samples that are varied a row or a column at a time
Bases4 == {m \in Samples4 : \A i, j \in 0..3 : i # j => At4(m, i, j) # F(0)}

\* m with row i replaced by r
WithRow4(m, i, r) == [n |-> [m.n EXCEPT ![i + 1] = r]]

\* m with column j replaced by the components of r
WithColumn4(m, j, r) ==
    [n |-> [i \in 1..4 |->
        LET row == m.n[i]
            e == Vector4D_index(r, i - 1).value
        IN  Vector4D_new(IF j = 0 THEN e ELSE row.x, IF j = 1 THEN e ELSE row.y,
                         IF j = 2 THEN e ELSE row.z, IF j = 3 THEN e ELSE row.w)]]

\* some Matrix4D operand: a sample, a diagonal matrix, or a sample with one
\* row or one column replaced by an enumerated vector
WithMatrix4D(Act(_)) ==
    \/ \E m \in Samples4 \cup Diagonals4 : Act(m)
    \/ \E m \in Bases4, i \in 0..3, r \in Vectors4 : Act(WithRow4(m, i, r))
    \/ \E m \in Bases4, j \in 0..3, r \in Vectors4 : Act(WithColumn4(m, j, r))

\* axes: the coordinate axes, unit vectors with rational components, and
\* vectors that are not of unit length
Axes3 ==
    { Vector3D_new(F(1), F(0), F(0)), Vector3D_new(F(0), F(1), F(0)),
      Vector3D_new(F(0), F(0), F(1)), Vector3D_new(Rat(3, 5), Rat(4, 5), F(0)),
      Vector3D_new(Rat(2, 3), Rat(-1, 3), Rat(2, 3)), Vector3D_new(F(1), F(1), F(1)),
      Vector3D_new(F(1), F(-2), Rat(1, 2)), Vector3D_new(F(0), F(-3), F(2)),
      Vector3D_new(F(1), F(-2), F(1)) }

\* vectors with components that are not integers
Fractions3 ==
    { Vector3D_new(Rat(1, 10), Rat(2, 10), Rat(3, 10)),
      Vector3D_new(Rat(3, 2), Rat(-3, 2), Rat(3, 2)),
      Vector3D_new(Rat(-23, 10), Rat(33, 10), Rat(-56, 10)) }

\* the axes with integer components, which f64 holds exactly
IntegerAxes3 == { a \in Axes3 : a.x[2] = 1 /\ a.y[2] = 1 /\ a.z[2] = 1 }

\* the matrix with entries k/10, 2k/10, .., 9k/10: for k = 1 and k = 2 the
\* operands of the test matrix3d_tests::matrix_multiplication
Tenths3(k) ==
    Matrix3D_new(Rat(k, 10), Rat(2 * k, 10), Rat(3 * k, 10),
                 Rat(4 * k, 10), Rat(5 * k, 10), Rat(6 * k, 10),
                 Rat(7 * k, 10), Rat(8 * k, 10), Rat(9 * k, 10))

\* left factors: matrices that are not diagonal, and the samples
LeftFactors3 ==
    { Matrix3D_new(F(x), F(y), F(2), F(0), F(1), F(0), F(y), F(0), F(1)) : x, y \in Ints }
        \cup Samples3 \cup {Tenths3(1), Tenths3(2)}

\* right factors
RightFactors3 ==
    { Matrix3D_new(F(1), F(x), F(0), F(0), F(1), F(0), F(x), F(2), F(1)) : x \in Ints }
        \cup Samples3 \cup {Tenths3(1), Tenths3(2)}

\* the matrices iterated
Iterables3 ==
    { Matrix3D_from_vector(v, Vector3D_new(F(4), F(5), F(6)), Vector3D_new(F(7), F(8), F(9))) :
        v \in Vectors3 } \cup Samples3 \cup {Tenths3(1)}

\* usize indices, in range and out of range
Indices == 0 .. MaxIndex

\* the rows 0.1 .. 0.9 of the tests matrix3d_tests::constructor and
\* ::vector_constructor, and rows 0.1 .. 1.6 for a Matrix4D
TenthsRows3 == Tenths3(1).n
TenthsRows4 ==
    << Vector4D_new(Rat(1, 10), Rat(2, 10), Rat(3, 10), Rat(4, 10)),
       Vector4D_new(Rat(5, 10), Rat(6, 10), Rat(7, 10), Rat(8, 10)),
       Vector4D_new(Rat(9, 10), F(1), Rat(11, 10), Rat(12, 10)),
       Vector4D_new(Rat(13, 10), Rat(14, 10), Rat(15, 10), Rat(16, 10)) >>

\* rows with row i replaced by r
ReplaceRow(rows, i, r) == [rows EXCEPT ![i + 1] = r]

\* the components of three and of four rows, in the order of the arguments
\* of new()
Components3(rows) ==
    << rows[1].x, rows[1].y, rows[1].z, rows[2].x, rows[2].y, rows[2].z,
       rows[3].x, rows[3].y, rows[3].z >>
Components4(rows) ==
    << rows[1].x, rows[1].y, rows[1].z, rows[1].w, rows[2].x, rows[2].y, rows[2].z, rows[2].w,
       rows[3].x, rows[3].y, rows[3].z, rows[3].w, rows[4].x, rows[4].y, rows[4].z, rows[4].w >>

\* angles in degrees: the quarter turns
QuarterTurns == { F(90 * k) : k \in (0 - MaxQuarterTurns) .. MaxQuarterTurns }

\* scale factors: the scalars, and those of the test matrix3d_tests::scale
Factors == Scalars \cup {F(2)}
FactorTriples == (Scalars \X Scalars \X Scalars) \cup {<<F(2), F(3), F(4)>>}

\* angles in degrees of which the tangent is taken: the multiples of 45
\* that are not odd multiples of 90
SkewAngles ==
    { F(45 * k) : k \in { h \in (0 - MaxQuarterTurns) .. MaxQuarterTurns : h % 4 # 2 } }

\* angles in degrees that are not quarter turns
ObliqueAngles == { F(30), F(60), F(91), F(95), F(116), F(124), F(150), F(200) }

\* the vectors a Matrix3D is applied to: the literals of the tests and some
\* vectors with fractional components
Applied3 ==
    { Vector3D_new(F(1), F(0), F(0)), Vector3D_new(F(0), F(1), F(0)),
      Vector3D_new(F(0), F(0), F(1)), Vector3D_new(F(1), F(1), F(1)),
      Vector3D_new(F(1), F(-2), F(3)), Vector3D_new(Rat(1, 2), Rat(-3, 2), F(2)),
      Vector3D_new(Rat(1, 10), Rat(2, 10), Rat(3, 10)) }

\* the vectors a Matrix4D is applied to
Applied4 ==
    { Vector4D_new(F(1), F(0), F(0), F(0)), Vector4D_new(F(0), F(1), F(0), F(0)),
      Vector4D_new(F(0), F(0), F(1), F(0)), Vector4D_new(F(0), F(0), F(0), F(1)),
      Vector4D_new(F(1), F(1), F(1), F(1)), Vector4D_new(F(1), F(-2), F(3), F(-1)),
      Vector4D_new(Rat(1, 2), Rat(-3, 2), F(2), Rat(1, 10)) }

(***************************************************************************)
(* The calls.                                                              *)
(***************************************************************************)
Init ==
    /\ op = "none"
    /\ args = <<>>
    /\ ret = <<>>
    /\ iterator = NoIterator

Idle == op = "none"

Call(name, operands, result) ==
    /\ op' = name
    /\ args' = operands
    /\ ret' = result
    /\ UNCHANGED iterator

CallVector3DCross ==
    /\ Idle
    /\ \E a, b \in Vectors3 :
        Call("Vector3D::cross", [self |-> a, rhs |-> b], Vector3D_cross(a, b))

CallVector3DMulScalar ==
    /\ Idle
    /\ \E v \in Vectors3, s \in Scalars :
        Call("Vector3D*f64", [self |-> v, rhs |-> s], Vector3D_mul_f64(v, s))

CallScalarMulVector3D ==
    /\ Idle
    /\ \E v \in Vectors3, s \in Scalars :
        Call("f64*Vector3D", [self |-> s, rhs |-> v], f64_mul_Vector3D(s, v))

CallMatrix3DDeterminant ==
    /\ Idle
    /\ WithMatrix3D(LAMBDA m :
        Call("Matrix3D::determinant", [self |-> m], Matrix3D_determinant(m)))

CallMatrix3DInverse ==
    /\ Idle
    /\ WithMatrix3D(LAMBDA m :
        Call("Matrix3D::inverse", [self |-> m], Matrix3D_inverse(m)))

CallMatrix3DMulScalar ==
    /\ Idle
    /\ \E m \in Samples3 \cup Diagonals3, s \in Scalars :
        Call("Matrix3D*f64", [self |-> m, rhs |-> s], Matrix3D_mul_f64(m, s))

CallScalarMulMatrix3D ==
    /\ Idle
    /\ \E m \in Samples3 \cup Diagonals3, s \in Scalars :
        Call("f64*Matrix3D", [self |-> s, rhs |-> m], f64_mul_Matrix3D(s, m))

CallMatrix4DDeterminant ==
    /\ Idle
    /\ WithMatrix4D(LAMBDA m :
        Call("Matrix4D::determinant", [self |-> m], Matrix4D_determinant(m)))

CallMatrix4DInverse ==
    /\ Idle
    /\ WithMatrix4D(LAMBDA m :
        Call("Matrix4D::inverse", [self |-> m], Matrix4D_inverse(m)))

CallMatrix4DMulScalar ==
    /\ Idle
    /\ \E m \in Samples4 \cup Diagonals4, s \in Scalars :
        Call("Matrix4D*f64", [self |-> m, rhs |-> s], Matrix4D_mul_f64(m, s))

CallScalarMulMatrix4D ==
    /\ Idle
    /\ \E m \in Samples4 \cup Diagonals4, s \in Scalars :
        Call("f64*Matrix4D", [self |-> s, rhs |-> m], f64_mul_Matrix4D(s, m))

CallVector3DProject ==
    /\ Idle
    /\ \E v \in Vectors3 \cup Fractions3, a \in Axes3 :
        Call("Vector3D::project", [self |-> v, rhs |-> a], Vector3D_project(v, a))

CallVector3DReject ==
    /\ Idle
    /\ \E v \in Vectors3 \cup Fractions3, a \in Axes3 :
        Call("Vector3D::reject", [self |-> v, rhs |-> a], Vector3D_reject(v, a))

CallVector3DProjectRounded ==
    /\ Idle
    /\ \E v \in Vectors3, a \in IntegerAxes3 :
        Call("Vector3D::project in f64", [self |-> v, rhs |-> a], Vector3D_project_rounded(v, a))

CallVector3DRejectRounded ==
    /\ Idle
    /\ \E v \in Vectors3, a \in IntegerAxes3 :
        Call("Vector3D::reject in f64", [self |-> v, rhs |-> a], Vector3D_reject_rounded(v, a))

CallMatrix3DMul ==
    /\ Idle
    /\ \E a \in LeftFactors3, b \in RightFactors3 :
        Call("Matrix3D*Matrix3D", [self |-> a, rhs |-> b], Matrix3D_mul(a, b))

\* m.into_iter(): args.again tells that m has been iterated before
CallMatrix3DIntoIter ==
    /\ Idle
    /\ \E m \in Iterables3 :
        /\ op' = "Matrix3D::into_iter"
        /\ args' = [self |-> m, again |-> FALSE]
        /\ ret' = Matrix3D_into_iter(m)
        /\ iterator' = Matrix3D_into_iter(m)

\* the matrix is Copy: into_iter() is called on it once more, and the
\* iterator made before is dropped
CallMatrix3DIntoIterAgain ==
    /\ iterator.live
    /\ op' = "Matrix3D::into_iter"
    /\ args' = [self |-> args.self, again |-> TRUE]
    /\ ret' = Matrix3D_into_iter(args.self)
    /\ iterator' = Matrix3D_into_iter(args.self)

\* iterator.next(): args.k is the number of calls made on it before this one
CallMatrix3DIteratorNext ==
    /\ iterator.live
    /\ LET k == IF op = "Matrix3DIterator::next" THEN args.k + 1 ELSE 0
           r == Matrix3DIterator_next(iterator)
       IN  /\ k < MaxCalls
           /\ op' = "Matrix3DIterator::next"
           /\ args' = [self |-> args.self, again |-> args.again, k |-> k]
           /\ ret' = r.value
           /\ iterator' = r.self

CallVector3DIndex ==
    /\ Idle
    /\ \E v \in Vectors3 \cup Fractions3, i \in Indices :
        Call("Vector3D[usize]", [self |-> v, index |-> i], Vector3D_index(v, i))

CallMatrix3DIndex ==
    /\ Idle
    /\ \E m \in Iterables3, i \in Indices :
        Call("Matrix3D[usize]", [self |-> m, index |-> i], Matrix3D_index(m, i))

CallMatrix4DIndex ==
    /\ Idle
    /\ \E m \in Samples4, i \in Indices :
        Call("Matrix4D[usize]", [self |-> m, index |-> i], Matrix4D_index(m, i))

CallMatrix3DNew ==
    /\ Idle
    /\ \E r \in Vectors3 \cup Fractions3, i \in 0..2 :
        LET n == Components3(ReplaceRow(TenthsRows3, i, r))
        IN  Call("Matrix3D::new", [n |-> n],
                 Matrix3D_new(n[1], n[2], n[3], n[4], n[5], n[6], n[7], n[8], n[9]))

CallMatrix3DFromVector ==
    /\ Idle
    /\ \E r \in Vectors3 \cup Fractions3, i \in 0..2 :
        LET rows == ReplaceRow(TenthsRows3, i, r)
        IN  Call("Matrix3D::from_vector", [rows |-> rows],
                 Matrix3D_from_vector(rows[1], rows[2], rows[3]))

CallMatrix4DNew ==
    /\ Idle
    /\ \E r \in Vectors4, i \in 0..3 :
        LET n == Components4(ReplaceRow(TenthsRows4, i, r))
        IN  Call("Matrix4D::new", [n |-> n],
                 Matrix4D_new(n[1], n[2], n[3], n[4], n[5], n[6], n[7], n[8],
                              n[9], n[10], n[11], n[12], n[13], n[14], n[15], n[16]))

CallMatrix4DFromVector ==
    /\ Idle
    /\ \E r \in Vectors4, i \in 0..3 :
        LET rows == ReplaceRow(TenthsRows4, i, r)
        IN  Call("Matrix4D::from_vector", [rows |-> rows],
                 Matrix4D_from_vector(rows[1], rows[2], rows[3], rows[4]))

CallMatrix3DMakeRotationX ==
    /\ Idle
    /\ \E t \in QuarterTurns :
        Call("Matrix3D::make_rotation_x", [t |-> t], Matrix3D_make_rotation_x(t))

CallMatrix3DMakeRotationY ==
    /\ Idle
    /\ \E t \in QuarterTurns :
        Call("Matrix3D::make_rotation_y", [t |-> t], Matrix3D_make_rotation_y(t))

CallMatrix3DMakeRotationZ ==
    /\ Idle
    /\ \E t \in QuarterTurns :
        Call("Matrix3D::make_rotation_z", [t |-> t], Matrix3D_make_rotation_z(t))

CallMatrix3DMakeReflection ==
    /\ Idle
    /\ \E a \in Axes3 \cup Vectors3 :
        Call("Matrix3D::make_reflection", [a |-> a], Matrix3D_make_reflection(a))

CallMatrix3DMakeInvolution ==
    /\ Idle
    /\ \E a \in Axes3 \cup Vectors3 :
        Call("Matrix3D::make_involution", [a |-> a], Matrix3D_make_involution(a))

CallMatrix3DMakeScale ==
    /\ Idle
    /\ \E f \in FactorTriples :
        Call("Matrix3D::make_scale", [sx |-> f[1], sy |-> f[2], sz |-> f[3]],
             Matrix3D_make_scale(f[1], f[2], f[3]))

CallMatrix3DMakeDirectionalScale ==
    /\ Idle
    /\ \E f \in Factors, a \in Axes3 \cup Vectors3 :
        Call("Matrix3D::make_directional_scale", [s |-> f, a |-> a],
             Matrix3D_make_directional_scale(f, a))

CallMatrix3DMakeSkew ==
    /\ Idle
    /\ \E theta \in SkewAngles, a \in Axes3, b \in Axes3 :
        Call("Matrix3D::make_skew", [theta |-> theta, a |-> a, b |-> b],
             Matrix3D_make_skew(theta, a, b))

CallMatrix3DMakeRotation ==
    /\ Idle
    /\ \E t \in QuarterTurns, a \in Axes3 :
        Call("Matrix3D::make_rotation", [t |-> t, a |-> a], Matrix3D_make_rotation(t, a))

CallMatrix3DMakeRotationRounded ==
    /\ Idle
    /\ \E t \in ObliqueAngles, a \in IntegerAxes3 :
        Call("Matrix3D::make_rotation in f64", [t |-> t, a |-> a],
             Matrix3D_make_rotation_rounded(t, a))

CallMatrix3DMulVector3D ==
    /\ Idle
    /\ \E m \in RightFactors3, v \in Applied3 :
        Call("Matrix3D*Vector3D", [self |-> m, rhs |-> v], Matrix3D_mul_Vector3D(m, v))

CallMatrix4DMul ==
    /\ Idle
    /\ \E a \in Samples4, b \in Samples4 :
        Call("Matrix4D*Matrix4D", [self |-> a, rhs |-> b], Matrix4D_mul(a, b))

CallMatrix4DMulVector4D ==
    /\ Idle
    /\ \E m \in Samples4, v \in Applied4 :
        Call("Matrix4D*Vector4D", [self |-> m, rhs |-> v], Matrix4D_mul_Vector4D(m, v))

\* the returned value goes out of scope
Drop ==
    /\ op # "none"
    /\ op' = "none"
    /\ args' = <<>>
    /\ ret' = <<>>
    /\ iterator' = NoIterator

Next ==
    \/ CallVector3DCross
    \/ CallVector3DMulScalar
    \/ CallScalarMulVector3D
    \/ CallMatrix3DDeterminant
    \/ CallMatrix3DInverse
    \/ CallMatrix3DMulScalar
    \/ CallScalarMulMatrix3D
    \/ CallMatrix4DDeterminant
    \/ CallMatrix4DInverse
    \/ CallMatrix4DMulScalar
    \/ CallScalarMulMatrix4D
    \/ CallVector3DProject
    \/ CallVector3DReject
    \/ CallVector3DProjectRounded
    \/ CallVector3DRejectRounded
    \/ CallMatrix3DMul
    \/ CallMatrix3DIntoIter
    \/ CallMatrix3DIntoIterAgain
    \/ CallMatrix3DIteratorNext
    \/ CallVector3DIndex
    \/ CallMatrix3DIndex
    \/ CallMatrix4DIndex
    \/ CallMatrix3DNew
    \/ CallMatrix3DFromVector
    \/ CallMatrix4DNew
    \/ CallMatrix4DFromVector
    \/ CallMatrix3DMakeRotationX
    \/ CallMatrix3DMakeRotationY
    \/ CallMatrix3DMakeRotationZ
    \/ CallMatrix3DMakeReflection
    \/ CallMatrix3DMakeInvolution
    \/ CallMatrix3DMakeScale
    \/ CallMatrix3DMakeDirectionalScale
    \/ CallMatrix3DMakeSkew
    \/ CallMatrix3DMakeRotation
    \/ CallMatrix3DMakeRotationRounded
    \/ CallMatrix3DMulVector3D
    \/ CallMatrix4DMul
    \/ CallMatrix4DMulVector4D
    \/ Drop

Spec == Init /\ [][Next]_vars

(***************************************************************************)
(* Reference notions used to state the properties.                         *)
(***************************************************************************)
Zero == F(0)
One == F(1)

\* the matrix of the test matrix3d_tests::matrix_inversion
InversionSample3 ==
    Matrix3D_new(F(1), F(2), F(3), F(5), F(5), F(6), F(7), F(8), F(9))

\* the matrix of the test matrix4d_tests::matrix_inversion
InversionSample4 ==
    Matrix4D_new(F(1), F(1), F(1), F(0), F(0), F(3), F(1), F(2),
                 F(1), F(0), F(2), F(1), F(2), F(3), F(1), F(0))

\* the matrices whose determinants the tests state
DeterminantSample3 ==
    Matrix3D_new(F(3), F(5), F(6), F(4), F(5), F(6), F(7), F(8), F(9))

DeterminantSample4 ==
    Matrix4D_new(F(1), F(1), F(1), F(-1), F(1), F(1), F(-1), F(1),
                 F(1), F(-1), F(1), F(1), F(-1), F(1), F(1), F(1))

\* entry (i, j) of a matrix, rows and columns counted from 0
E3(m, i, j) == LET r == m.n[i + 1] IN <<r.x, r.y, r.z>>[j + 1]
E4(m, i, j) == LET r == m.n[i + 1] IN <<r.x, r.y, r.z, r.w>>[j + 1]

\* the 2x2 determinant p*s - q*r
Det2(p, q, r, s) == RSub(RMul(p, s), RMul(q, r))

\* cofactor expansion of a 3x3 determinant along its first row, the matrix
\* given by its entry function e[i, j]
Cofactor3(e) ==
    RAdd(RSub(RMul(e[0, 0], Det2(e[1, 1], e[1, 2], e[2, 1], e[2, 2])),
              RMul(e[0, 1], Det2(e[1, 0], e[1, 2], e[2, 0], e[2, 2]))),
         RMul(e[0, 2], Det2(e[1, 0], e[1, 1], e[2, 0], e[2, 1])))

\* the 3x3 minor of a 4x4 matrix m obtained by deleting row 0 and column j
Minor4(m, j) ==
    [i \in 0..2, k \in 0..2 |-> E4(m, i + 1, IF k < j THEN k ELSE k + 1)]

\* Laplace expansion of a 4x4 determinant along its first row
Laplace4(m) ==
    RAdd(RSub(RAdd(RSub(Zero,
            RMul(E4(m, 0, 1), Cofactor3(Minor4(m, 1)))),
            RMul(E4(m, 0, 0), Cofactor3(Minor4(m, 0)))),
            RMul(E4(m, 0, 3), Cofactor3(Minor4(m, 3)))),
            RMul(E4(m, 0, 2), Cofactor3(Minor4(m, 2))))

\* the scalar triple product (a x b) . c of the rows a, b, c of a 3x3 matrix
TripleProduct3(m) ==
    LET a == m.n[1]
        b == m.n[2]
        c == m.n[3]
    IN  RAdd(RAdd(RMul(RSub(RMul(a.y, b.z), RMul(a.z, b.y)), c.x),
                  RMul(RSub(RMul(a.z, b.x), RMul(a.x, b.z)), c.y)),
             RMul(RSub(RMul(a.x, b.y), RMul(a.y, b.x)), c.z))

\* a scalar of the model: an integer over a positive integer
IsScalar(q) == q \in Int \X (Nat \ {0})

IsMatrix3D(m) == \A i, j \in 0..2 : IsScalar(E3(m, i, j))
IsMatrix4D(m) == \A i, j \in 0..3 : IsScalar(E4(m, i, j))

ZeroRow3(m) == \E i \in 0..2 : \A j \in 0..2 : E3(m, i, j) = Zero
ZeroRow4(m) == \E i \in 0..3 : \A j \in 0..3 : E4(m, i, j) = Zero

IsDiagonal3(m) == \A i, j \in 0..2 : i # j => E3(m, i, j) = Zero
IsDiagonal4(m) == \A i, j \in 0..3 : i # j => E4(m, i, j) = Zero

Scaled3(v, s) == [x |-> RMul(s, v.x), y |-> RMul(s, v.y), z |-> RMul(s, v.z)]

(***************************************************************************)
(* Properties.                                                             *)
(***************************************************************************)

\* C1: whenever Matrix3D::inverse returns Some(N) for a matrix M, the
\* product N * M is the identity matrix.
C1_Inverse3TimesMatrixIsIdentity ==
    (op = "Matrix3D::inverse" /\ ret.some)
        => Matrix3D_mul(ret.value, args.self) = Matrix3D_identity

\* the inverse of the test's matrix has been computed; its determinant is 6,
\* so the inverse has entries that are not integers
C1_Witness ==
    /\ op = "Matrix3D::inverse"
    /\ args.self = InversionSample3
    /\ ret.some
    /\ \E i, j \in 0..2 : E3(ret.value, i, j)[2] = 6

\* C2: whenever Matrix4D::inverse returns Some(N) for a matrix M, the
\* product N * M is the identity matrix.
C2_Inverse4TimesMatrixIsIdentity ==
    (op = "Matrix4D::inverse" /\ ret.some)
        => Matrix4D_mul(ret.value, args.self) = Matrix4D_identity

\* the inverse of the test's matrix has been computed and is not the matrix
C2_Witness ==
    /\ op = "Matrix4D::inverse"
    /\ args.self = InversionSample4
    /\ ret.some
    /\ ret.value # args.self
    /\ \E i, j \in 0..3 : E4(ret.value, i, j)[2] # 1

\* C3: inverse() returns None exactly when the matrix is singular, that is
\* exactly when its determinant-equivalent scalar ((a x b) . c for 3x3,
\* s . v + t . u for 4x4) is 0, and Some(matrix) for every other matrix; it
\* has no other outcome.
C3_NoneExactlyWhenSingular ==
    /\ op = "Matrix3D::inverse" =>
        /\ ret = None <=> TripleProduct3(args.self) = Zero
        /\ ret = None <=>
            Cofactor3([i \in 0..2, j \in 0..2 |-> E3(args.self, i, j)]) = Zero
        /\ ret # None => (ret.some /\ IsMatrix3D(ret.value))
    /\ op = "Matrix4D::inverse" =>
        /\ ret = None <=> Matrix4D_inverse_product(args.self) = Zero
        /\ ret = None <=> Laplace4(args.self) = Zero
        /\ ret # None => (ret.some /\ IsMatrix4D(ret.value))

\* None has been returned for a 4x4 matrix without a zero entry
C3_Witness ==
    /\ op = "Matrix4D::inverse"
    /\ ret = None
    /\ \A i, j \in 0..3 : E4(args.self, i, j) # Zero

\* C4: the scalar (a x b) . c that Matrix3D::inverse tests and divides by
\* equals Matrix3D::determinant of the same matrix.
C4_TripleProductIsDeterminant ==
    op = "Matrix3D::inverse"
        => Matrix3D_inverse_product(args.self) = Matrix3D_determinant(args.self)

\* inverse() has run on a matrix whose scalar is neither 0 nor +-1
C4_Witness ==
    /\ op = "Matrix3D::inverse"
    /\ args.self = DeterminantSample3
    /\ Matrix3D_inverse_product(args.self) = F(3)

\* C5: the scalar s . v + t . u that Matrix4D::inverse tests and divides by
\* equals Matrix4D::determinant of the same matrix.
C5_BlockScalarIsDeterminant ==
    op = "Matrix4D::inverse"
        => Matrix4D_inverse_product(args.self) = Matrix4D_determinant(args.self)

\* inverse() has run on the test's matrix, whose scalar is -16
C5_Witness ==
    /\ op = "Matrix4D::inverse"
    /\ args.self = DeterminantSample4
    /\ Matrix4D_inverse_product(args.self) = F(-16)

\* C6: Matrix4D::determinant returns the Laplace expansion along the first
\* row with 3x3 minors, and -16 for the matrix of the test.
C6_Determinant4IsLaplace ==
    op = "Matrix4D::determinant" =>
        /\ ret = Laplace4(args.self)
        /\ args.self = DeterminantSample4 => ret = F(-16)

\* the determinant of the test's matrix has been computed
C6_Witness ==
    /\ op = "Matrix4D::determinant"
    /\ args.self = DeterminantSample4
    /\ ret = F(-16)

\* C7: Matrix3D::determinant returns the cofactor determinant, and 3 for
\* Matrix3D::new(3,5,6,4,5,6,7,8,9).
C7_Determinant3IsCofactor ==
    op = "Matrix3D::determinant" =>
        /\ ret = Cofactor3([i \in 0..2, j \in 0..2 |-> E3(args.self, i, j)])
        /\ args.self = DeterminantSample3 => ret = F(3)

\* the determinant of the test's matrix has been computed
C7_Witness ==
    /\ op = "Matrix3D::determinant"
    /\ args.self = DeterminantSample3
    /\ ret = F(3)

C9_ScalarMultiplicationCommutes ==
    /\ op = "f64*Vector3D" =>
        /\ ret = Vector3D_mul_f64(args.rhs, args.self)
        /\ ret = Scaled3(args.rhs, args.self)
    /\ op = "Vector3D*f64" =>
        /\ ret = f64_mul_Vector3D(args.rhs, args.self)
        /\ ret = Scaled3(args.self, args.rhs)
    /\ op = "f64*Matrix3D" =>
        /\ ret = Matrix3D_mul_f64(args.rhs, args.self)
        /\ \A i, j \in 0..2 : E3(ret, i, j) = RMul(args.self, E3(args.rhs, i, j))
    /\ op = "Matrix3D*f64" =>
        /\ ret = f64_mul_Matrix3D(args.rhs, args.self)
        /\ \A i, j \in 0..2 : E3(ret, i, j) = RMul(args.rhs, E3(args.self, i, j))
    /\ op = "f64*Matrix4D" =>
        /\ ret = Matrix4D_mul_f64(args.rhs, args.self)
        /\ \A i, j \in 0..3 : E4(ret, i, j) = RMul(args.self, E4(args.rhs, i, j))
    /\ op = "Matrix4D*f64" =>
        /\ ret = f64_mul_Matrix4D(args.rhs, args.self)
        /\ \A i, j \in 0..3 : E4(ret, i, j) = RMul(args.rhs, E4(args.self, i, j))

\* a vector has been multiplied from the left by 1/2
C9_Witness ==
    /\ op = "f64*Vector3D"
    /\ args.self = Rat(1, 2)
    /\ args.rhs = Vector3D_new(F(1), F(-1), F(1))
    /\ ret = Vector3D_new(Rat(1, 2), Rat(-1, 2), Rat(1, 2))

\* C10: a.cross(b) has the components (a.y*b.z - a.z*b.y, a.z*b.x - a.x*b.z,
\* a.x*b.y - a.y*b.x) and is orthogonal to a and to b.
C10_CrossIsOrthogonal ==
    op = "Vector3D::cross" =>
        LET a == args.self
            b == args.rhs
        IN  /\ ret = [x |-> RSub(RMul(a.y, b.z), RMul(a.z, b.y)),
                      y |-> RSub(RMul(a.z, b.x), RMul(a.x, b.z)),
                      z |-> RSub(RMul(a.x, b.y), RMul(a.y, b.x))]
            /\ Vector3D_dot(a, ret) = Zero
            /\ Vector3D_dot(b, ret) = Zero

\* a cross product without a zero component has been computed
C10_Witness ==
    /\ op = "Vector3D::cross"
    /\ ret.x # Zero /\ ret.y # Zero /\ ret.z # Zero

\* the scalar order and absolute value
RLe(p, q) == p[1] * q[2] <= q[1] * p[2]
RAbs(p) == <<Abs(p[1]), p[2]>>

\* the unit vectors of the coordinate axes
CoordinateAxes3 ==
    { Vector3D_new(One, Zero, Zero), Vector3D_new(Zero, One, Zero), Vector3D_new(Zero, Zero, One) }

\* sum differs from v by no more than the two roundings of v - p and p + r
\* allow: 2^(1 - MantissaDigits) * (|v| + |r|)
WithinRounding(sum, v, r) ==
    RLe(RAbs(RSub(sum, v)), RDiv(RAdd(RAbs(v), RAbs(r)), F(Pow2(MantissaDigits - 1))))

\* C11 (as stated): for every vector v and nonzero axis a, the f64 values
\* v.project(a) + v.reject(a) and v are equal.
C11_ProjectPlusRejectIsVectorInF64 ==
    /\ op = "Vector3D::project in f64" =>
        Vector3D_add_rounded(ret, Vector3D_reject_rounded(args.self, args.rhs)) = args.self
    /\ op = "Vector3D::reject in f64" =>
        Vector3D_add_rounded(Vector3D_project_rounded(args.self, args.rhs), ret) = args.self

\* C11 (amended): for every vector v and nonzero axis a, project(a) is
\* a * (v . a / a . a) and reject(a) is v - project(a); v = v.project(a) +
\* v.reject(a) holds in exact arithmetic, and in rounded arithmetic it holds
\* when a is a coordinate axis and otherwise up to the rounding of the
\* subtraction and the addition.
C11_ProjectPlusRejectIsVector ==
    /\ op = "Vector3D::project" =>
        LET v == args.self
            a == args.rhs
            k == RDiv(Vector3D_dot(v, a), Vector3D_dot(a, a))
        IN  /\ ret = [x |-> RMul(a.x, k), y |-> RMul(a.y, k), z |-> RMul(a.z, k)]
            /\ Vector3D_add(ret, Vector3D_reject(v, a)) = v
    /\ op = "Vector3D::reject" =>
        LET v == args.self
            a == args.rhs
            p == Vector3D_project(v, a)
        IN  /\ ret = [x |-> RSub(v.x, p.x), y |-> RSub(v.y, p.y), z |-> RSub(v.z, p.z)]
            /\ Vector3D_add(p, ret) = v
    /\ op = "Vector3D::reject in f64" =>
        LET v == args.self
            a == args.rhs
            p == Vector3D_project_rounded(v, a)
            sum == Vector3D_add_rounded(p, ret)
        IN  /\ ret = [x |-> f64_sub(v.x, p.x), y |-> f64_sub(v.y, p.y), z |-> f64_sub(v.z, p.z)]
            /\ a \in CoordinateAxes3 => sum = v
            /\ WithinRounding(sum.x, v.x, ret.x)
            /\ WithinRounding(sum.y, v.y, ret.y)
            /\ WithinRounding(sum.z, v.z, ret.z)
    /\ op = "Vector3D::project in f64" =>
        LET v == args.self
            a == args.rhs
            r == Vector3D_reject_rounded(v, a)
            sum == Vector3D_add_rounded(ret, r)
        IN  /\ a \in CoordinateAxes3 => sum = v
            /\ WithinRounding(sum.x, v.x, r.x)
            /\ WithinRounding(sum.y, v.y, r.y)
            /\ WithinRounding(sum.z, v.z, r.z)

\* a rejection has been computed in rounded arithmetic on an axis that is not
\* a coordinate axis, and adding the projection to it gives a vector other
\* than the one decomposed; and one has been computed in exact arithmetic
\* that is neither the vector nor zero
C11_Witness ==
    /\ op = "Vector3D::reject in f64"
    /\ args.rhs \notin CoordinateAxes3
    /\ ret.x # Zero /\ ret.y # Zero /\ ret.z # Zero
    /\ Vector3D_add_rounded(Vector3D_project_rounded(args.self, args.rhs), ret) # args.self
    /\ Vector3D_add(Vector3D_project(args.self, args.rhs), Vector3D_reject(args.self, args.rhs)) = args.self

\* the third factors of the associativity law
ThirdFactors3 ==
    { Tenths3(1), Matrix3D_new(F(3), F(5), F(6), F(4), F(5), F(6), F(7), F(8), F(9)),
      Matrix3D_new(F(0), F(1), F(0), F(0), F(0), F(1), F(1), F(0), F(0)) }

\* C12: the product of two Matrix3D is the row-times-column composition,
\* and it is associative: A * (B * C) = (A * B) * C and
\* C * (A * B) = (C * A) * B for every third factor C; the product of the
\* test's operands is the matrix the test expects.
C12_MultiplicationIsAssociative ==
    op = "Matrix3D*Matrix3D" =>
        LET a == args.self
            b == args.rhs
        IN  /\ \A i, j \in 0..2 :
                E3(ret, i, j) = RAdd(RAdd(RMul(E3(a, i, 0), E3(b, 0, j)),
                                          RMul(E3(a, i, 1), E3(b, 1, j))),
                                     RMul(E3(a, i, 2), E3(b, 2, j)))
            /\ \A c \in ThirdFactors3 :
                /\ Matrix3D_mul(a, Matrix3D_mul(b, c)) = Matrix3D_mul(ret, c)
                /\ Matrix3D_mul(c, ret) = Matrix3D_mul(Matrix3D_mul(c, a), b)
            /\ (a = Tenths3(1) /\ b = Tenths3(2)) =>
                ret = Matrix3D_new(Rat(60, 100), Rat(72, 100), Rat(84, 100),
                                   Rat(132, 100), Rat(162, 100), Rat(192, 100),
                                   Rat(204, 100), Rat(252, 100), F(3))

\* two matrices that are not diagonal have been multiplied, and their product
\* in the other order is a different matrix
C12_Witness ==
    /\ op = "Matrix3D*Matrix3D"
    /\ ~IsDiagonal3(args.self)
    /\ ~IsDiagonal3(args.rhs)
    /\ ret # Matrix3D_mul(args.rhs, args.self)
    /\ ret # Matrix3D_identity


\* C13: the k-th call of next() on an iterator over m (k counted from 0)
\* returns Some(m[k % 3][k / 3]) for k < 9 and None from then on; the index
\* of the iterator counts the elements returned and never exceeds 9; an
\* iterator just made by into_iter(), the first or a later one on the same
\* matrix, is at index 0 and its next element is m[0][0].
C13_IterationIsColumnMajor ==
    /\ iterator.live =>
        /\ iterator.index <= 9
        /\ iterator.n = args.self.n
    /\ ~iterator.live => op \notin {"Matrix3D::into_iter", "Matrix3DIterator::next"}
    /\ op = "Matrix3D::into_iter" =>
        /\ iterator = ret
        /\ iterator.index = 0
        /\ Matrix3DIterator_next(iterator).value = Some(E3(args.self, 0, 0))
    /\ op = "Matrix3DIterator::next" =>
        /\ args.k < 9 =>
            /\ ret = Some(E3(args.self, args.k % 3, args.k \div 3))
            /\ iterator.index = args.k + 1
        /\ args.k >= 9 =>
            /\ ret = None
            /\ iterator.index = 9

\* a matrix with nine different entries has been iterated a second time, and
\* the call after the ninth element has returned None
C13_Witness ==
    /\ op = "Matrix3DIterator::next"
    /\ args.self = Tenths3(1)
    /\ args.again
    /\ args.k = 10
    /\ ret = None
    /\ iterator.index = 9


\* C14: Vector3D[i] returns x, y, z for i = 0, 1, 2 and panics for i >= 3;
\* Matrix3D[i] returns row i for i <= 2 and panics for i >= 3; Matrix4D[i]
\* returns row i for i <= 3 and panics for i >= 4.
C14_IndexingPanicsOutOfRange ==
    /\ op = "Vector3D[usize]" =>
        LET v == args.self
            i == args.index
        IN  /\ ret.panic <=> i >= 3
            /\ i = 0 => ret.value = v.x
            /\ i = 1 => ret.value = v.y
            /\ i = 2 => ret.value = v.z
    /\ op = "Matrix3D[usize]" =>
        LET m == args.self
            i == args.index
        IN  /\ ret.panic <=> i >= 3
            /\ i <= 2 => ret.value = Vector3D_new(E3(m, i, 0), E3(m, i, 1), E3(m, i, 2))
    /\ op = "Matrix4D[usize]" =>
        LET m == args.self
            i == args.index
        IN  /\ ret.panic <=> i >= 4
            /\ i <= 3 => ret.value = Vector4D_new(E4(m, i, 0), E4(m, i, 1), E4(m, i, 2), E4(m, i, 3))

\* a Matrix3D has been indexed with 3, which is a row of a Matrix4D only,
\* and the call has panicked
C14_Witness ==
    /\ op = "Matrix3D[usize]"
    /\ args.index = 3
    /\ ret = Panic


\* C15: the matrix made by new(n00, n01, ..) has m[i][j] = n_ij, the
\* argument at place (row i, column j) of the row-by-row list; the matrix
\* made by from_vector(r0, r1, ..) has m[i] = r_i and equals new() called
\* with the components of r0, r1, .. in order; for Matrix3D and Matrix4D.
C15_ConstructionIsRowMajor ==
    /\ op = "Matrix3D::new" =>
        \A i, j \in 0..2 :
            Vector3D_index(Matrix3D_index(ret, i).value, j) = Returned(args.n[3 * i + j + 1])
    /\ op = "Matrix3D::from_vector" =>
        LET n == Components3(args.rows)
        IN  /\ \A i \in 0..2 : Matrix3D_index(ret, i) = Returned(args.rows[i + 1])
            /\ ret = Matrix3D_new(n[1], n[2], n[3], n[4], n[5], n[6], n[7], n[8], n[9])
    /\ op = "Matrix4D::new" =>
        \A i, j \in 0..3 :
            Vector4D_index(Matrix4D_index(ret, i).value, j) = Returned(args.n[4 * i + j + 1])
    /\ op = "Matrix4D::from_vector" =>
        LET n == Components4(args.rows)
        IN  /\ \A i \in 0..3 : Matrix4D_index(ret, i) = Returned(args.rows[i + 1])
            /\ ret = Matrix4D_new(n[1], n[2], n[3], n[4], n[5], n[6], n[7], n[8],
                                  n[9], n[10], n[11], n[12], n[13], n[14], n[15], n[16])

\* a Matrix3D has been made by new() from nine scalars of which the second
\* and the fourth differ, and m[0][1] is the second
C15_Witness ==
    /\ op = "Matrix3D::new"
    /\ args.n[2] # args.n[4]
    /\ E3(ret, 0, 1) = args.n[2]
    /\ E3(ret, 1, 0) = args.n[4]


\* the cosine and the sine of an angle of d degrees that is a whole number
\* of quarter turns: the point reached from (1, 0) by d / 90 quarter turns
\* of the unit circle, each taking (c, s) to (-s, c)
RECURSIVE Turned(_, _)
Turned(p, quarters) ==
    IF quarters = 0 THEN p ELSE Turned(<<RNeg(p[2]), p[1]>>, quarters - 1)
CosSin(d) == Turned(<<One, Zero>>, (d[1] \div 90) % 4)

Component3(v, i) == <<v.x, v.y, v.z>>[i + 1]
Delta(i, j) == IF i = j THEN One ELSE Zero

\* the vectors a transform is applied to: the basis, on which a linear map
\* is decided, with some others; and the vectors (p, 0, p)
Probes3 == CoordinateAxes3 \cup Fractions3 \cup {Vector3D_new(One, One, One)}
Diagonal3(p) == Vector3D_new(p, Zero, p)

\* the part of v along the axis a, and the part across it
Along(v, a) == Scaled3(a, Vector3D_dot(v, a))
Across(v, a) == Vector3D_sub(v, Along(v, a))

\* C17: make_reflection(a) is I - 2 a (x) a, and for every vector v
\* make_reflection(a) * v = v - 2 (a . v) a; when a is of unit length the
\* part of v along a is negated and the part across a is kept; with
\* a = (0,0,1) the vector (p,0,p) goes to (p,0,-p).
C17_ReflectionThroughPlane ==
    op = "Matrix3D::make_reflection" =>
        LET a == args.a
        IN  /\ \A i, j \in 0..2 :
                E3(ret, i, j) = RSub(Delta(i, j),
                                     RMul(F(2), RMul(Component3(a, i), Component3(a, j))))
            /\ \A v \in Probes3 :
                LET w == Matrix3D_mul_Vector3D(ret, v)
                IN  /\ w = Vector3D_sub(v, Scaled3(a, RMul(F(2), Vector3D_dot(a, v))))
                    /\ Vector3D_dot(a, a) = One =>
                        /\ Along(w, a) = Vector3D_neg(Along(v, a))
                        /\ Across(w, a) = Across(v, a)
            /\ a = Vector3D_new(Zero, Zero, One) =>
                \A p \in Scalars :
                    Matrix3D_mul_Vector3D(ret, Diagonal3(p)) = Vector3D_new(p, Zero, RNeg(p))

\* the reflection through the plane across a unit axis that is not a
\* coordinate axis has been made, and it moves the vector (1,1,1)
C17_Witness ==
    /\ op = "Matrix3D::make_reflection"
    /\ args.a = Vector3D_new(Rat(3, 5), Rat(4, 5), Zero)
    /\ Matrix3D_mul_Vector3D(ret, Vector3D_new(One, One, One)) # Vector3D_new(One, One, One)
    /\ Matrix3D_mul(ret, ret) = Matrix3D_identity

\* C18: make_involution(a) is 2 a (x) a - I, the componentwise negation of
\* make_reflection(a), and for every vector v make_involution(a) * v =
\* 2 (a . v) a - v; when a is of unit length the part of v along a is kept
\* and the part across a is negated; with a = (0,0,1) the vector (p,0,p)
\* goes to (-p,0,p).
C18_InvolutionAboutAxis ==
    op = "Matrix3D::make_involution" =>
        LET a == args.a
        IN  /\ \A i, j \in 0..2 :
                /\ E3(ret, i, j) = RSub(RMul(F(2), RMul(Component3(a, i), Component3(a, j))),
                                        Delta(i, j))
                /\ E3(ret, i, j) = RNeg(E3(Matrix3D_make_reflection(a), i, j))
            /\ \A v \in Probes3 :
                LET w == Matrix3D_mul_Vector3D(ret, v)
                IN  /\ w = Vector3D_sub(Scaled3(a, RMul(F(2), Vector3D_dot(a, v))), v)
                    /\ Vector3D_dot(a, a) = One =>
                        /\ Along(w, a) = Along(v, a)
                        /\ Across(w, a) = Vector3D_neg(Across(v, a))
            /\ a = Vector3D_new(Zero, Zero, One) =>
                \A p \in Scalars :
                    Matrix3D_mul_Vector3D(ret, Diagonal3(p)) = Vector3D_new(RNeg(p), Zero, p)

\* the involution about a unit axis that is not a coordinate axis has been
\* made, and it moves the vector (1,1,1) but not the axis
C18_Witness ==
    /\ op = "Matrix3D::make_involution"
    /\ args.a = Vector3D_new(Rat(2, 3), Rat(-1, 3), Rat(2, 3))
    /\ Matrix3D_mul_Vector3D(ret, Vector3D_new(One, One, One)) # Vector3D_new(One, One, One)
    /\ Matrix3D_mul_Vector3D(ret, args.a) = args.a


\* the matrix of the test matrix3d_tests::scale, and row i of a matrix
Ones3 == Matrix3D_new(One, One, One, One, One, One, One, One, One)
Row3(m, i) == Vector3D_new(E3(m, i, 0), E3(m, i, 1), E3(m, i, 2))

\* the matrices scaled
Scaled3Samples == Samples3 \cup {Tenths3(1), Ones3}

Tangent(d) ==
    CASE d[1] % 180 = 0 -> Zero
      [] d[1] % 180 = 45 -> One
      [] d[1] % 180 = 135 -> RNeg(One)

AxisRotationRounded(k, t) ==
    CASE k = 0 -> Matrix3D_make_rotation_x_rounded(t)
      [] k = 1 -> Matrix3D_make_rotation_y_rounded(t)
      [] k = 2 -> Matrix3D_make_rotation_z_rounded(t)

\* the coordinate axes k that the vector a is the unit vector of
AxesOf(a) == { k \in 0..2 : \A i \in 0..2 : Component3(a, i) = Delta(i, k) }

\* C21 (as stated): for every angle t, the f64 matrices make_rotation(t, a)
\* with a the unit vector of the X, the Y or the Z axis and
\* make_rotation_x(t), make_rotation_y(t) or make_rotation_z(t) are equal,
\* entry by entry.
C21_RotationAgreesOnAxesInF64 ==
    op = "Matrix3D::make_rotation in f64" =>
        \A k \in AxesOf(args.a) : \A i, j \in 0..2 :
            E3(ret, i, j) = E3(AxisRotationRounded(k, args.t), i, j)

\* C21 (amended): in exact arithmetic make_rotation(t, a) with a the unit
\* vector of the X, the Y or the Z axis is make_rotation_x(t),
\* make_rotation_y(t) or make_rotation_z(t), entry by entry, whatever values
\* c and s the cosine and the sine take.  In rounded arithmetic every entry
\* agrees but the diagonal entry of the axis, computed as c + (1 - c): it is
\* 1 when c >= 0, and otherwise within one rounding (2^-MantissaDigits) of
\* the 1 the axis constructor stores.
C21_RotationAgreesOnAxes ==
    /\ op = "Matrix3D::make_rotation" =>
        LET t == args.t
            a == args.a
        IN  /\ a = Vector3D_new(One, Zero, Zero) =>
                /\ \A i, j \in 0..2 : E3(ret, i, j) = E3(Matrix3D_make_rotation_x(t), i, j)
                /\ \A c, s \in Scalars :
                    Matrix3D_rotation(c, s, a)
                        = Matrix3D_new(One, Zero, Zero, Zero, c, RNeg(s), Zero, s, c)
            /\ a = Vector3D_new(Zero, One, Zero) =>
                /\ \A i, j \in 0..2 : E3(ret, i, j) = E3(Matrix3D_make_rotation_y(t), i, j)
                /\ \A c, s \in Scalars :
                    Matrix3D_rotation(c, s, a)
                        = Matrix3D_new(c, Zero, s, Zero, One, Zero, RNeg(s), Zero, c)
            /\ a = Vector3D_new(Zero, Zero, One) =>
                /\ \A i, j \in 0..2 : E3(ret, i, j) = E3(Matrix3D_make_rotation_z(t), i, j)
                /\ \A c, s \in Scalars :
                    Matrix3D_rotation(c, s, a)
                        = Matrix3D_new(c, RNeg(s), Zero, s, c, Zero, Zero, Zero, One)
    /\ op = "Matrix3D::make_rotation in f64" =>
        \A k \in AxesOf(args.a) :
            LET axis == AxisRotationRounded(k, args.t)
                c == cos_rounded(to_radians(args.t))
            IN  /\ \A i, j \in 0..2 :
                    (i # k \/ j # k) => E3(ret, i, j) = E3(axis, i, j)
                /\ E3(axis, k, k) = One
                /\ RLe(RAbs(RSub(E3(ret, k, k), One)), Rat(1, Pow2(MantissaDigits)))
                /\ RLe(Zero, c) => E3(ret, k, k) = One

\* make_rotation has been called in rounded arithmetic on the X axis with
\* an angle of negative cosine, and the entry [0][0] it computed is not the
\* 1 that make_rotation_x stores, while the other entries agree
C21_Witness ==
    /\ op = "Matrix3D::make_rotation in f64"
    /\ args.a = Vector3D_new(One, Zero, Zero)
    /\ E3(ret, 0, 0) # One
    /\ E3(Matrix3D_make_rotation_x_rounded(args.t), 0, 0) = One
    /\ E3(ret, 1, 1) = E3(Matrix3D_make_rotation_x_rounded(args.t), 1, 1)
    /\ E3(ret, 1, 2) = E3(Matrix3D_make_rotation_x_rounded(args.t), 1, 2)
    /\ Matrix3D_make_rotation(F(90), args.a) = Matrix3D_make_rotation_x(F(90))


Component4(v, i) == <<v.x, v.y, v.z, v.w>>[i + 1]

\* C22: in exact arithmetic the product of a matrix and a vector is the
\* vector of the rows times the vector, the identity matrix maps every vector
\* to itself, and the product of two matrices is the composition of their
\* maps: (A * B) * v = A * (B * v), for Matrix3D with Vector3D and for
\* Matrix4D with Vector4D.
C22_ProductIsComposition ==
    /\ op = "Matrix3D*Vector3D" =>
        LET b == args.self
            v == args.rhs
        IN  /\ \A i \in 0..2 :
                Component3(ret, i) = RAdd(RAdd(RMul(E3(b, i, 0), v.x), RMul(E3(b, i, 1), v.y)),
                                          RMul(E3(b, i, 2), v.z))
            /\ b = Matrix3D_identity => ret = v
            /\ \A a \in LeftFactors3 :
                Matrix3D_mul_Vector3D(Matrix3D_mul(a, b), v) = Matrix3D_mul_Vector3D(a, ret)
    /\ op = "Matrix3D*Matrix3D" =>
        \A v \in Applied3 :
            Matrix3D_mul_Vector3D(ret, v)
                = Matrix3D_mul_Vector3D(args.self, Matrix3D_mul_Vector3D(args.rhs, v))
    /\ op = "Matrix4D*Vector4D" =>
        LET b == args.self
            v == args.rhs
        IN  /\ \A i \in 0..3 :
                Component4(ret, i) =
                    RAdd(RAdd(RAdd(RMul(E4(b, i, 0), v.x), RMul(E4(b, i, 1), v.y)),
                              RMul(E4(b, i, 2), v.z)), RMul(E4(b, i, 3), v.w))
            /\ b = Matrix4D_identity => ret = v
            /\ \A a \in Samples4 :
                Matrix4D_mul_Vector4D(Matrix4D_mul(a, b), v) = Matrix4D_mul_Vector4D(a, ret)
    /\ op = "Matrix4D*Matrix4D" =>
        \A v \in Applied4 :
            Matrix4D_mul_Vector4D(ret, v)
                = Matrix4D_mul_Vector4D(args.self, Matrix4D_mul_Vector4D(args.rhs, v))

\* a Matrix4D that is not diagonal has been applied to a vector without zero
\* components, the result is another vector, and some sample A does not
\* commute with the matrix: (A * B) * v and (B * A) * v differ
C22_Witness ==
    /\ op = "Matrix4D*Vector4D"
    /\ ~IsDiagonal4(args.self)
    /\ \A i \in 0..3 : Component4(args.rhs, i) # Zero
    /\ ret # args.rhs
    /\ \E a \in Samples4 :
        /\ Matrix4D_mul_Vector4D(Matrix4D_mul(a, args.self), args.rhs)
                = Matrix4D_mul_Vector4D(a, ret)
        /\ Matrix4D_mul_Vector4D(Matrix4D_mul(args.self, a), args.rhs)
                # Matrix4D_mul_Vector4D(a, ret)

====
